---- MODULE Spec2Model ----
(***************************************************************************)
(* The nested-container calls of the agent's HTTP API (slave/http.cpp):    *)
(* LAUNCH_NESTED_CONTAINER, LAUNCH_NESTED_CONTAINER_SESSION,               *)
(* WAIT_NESTED_CONTAINER and KILL_NESTED_CONTAINER, and the two streaming  *)
(* calls ATTACH_CONTAINER_INPUT and ATTACH_CONTAINER_OUTPUT.               *)
(*                                                                         *)
(* One call is followed from the moment its handler is entered.  Every     *)
(* future of the handler chain is a step of its own: the step that         *)
(* completes a future is taken by the component that owns it (authorizer,  *)
(* containerizer, connection, client), the continuations registered with   *)
(* defer(slave->self(), ...) are steps of the agent actor.                 *)
(*                                                                         *)
(* The request is followed from its arrival at the call endpoint (api and  *)
(* _api) in ApiSpec; ExecutorSpec is the executor endpoint (executor), and *)
(* VolumeSpec the master and the agent as the persistent volume tests see  *)
(* them.                                                                   *)
(*                                                                         *)
(* A ContainerID is the sequence of its values from the container itself   *)
(* up to the root: <<"n", "e1">> is container n whose parent is e1.  The   *)
(* empty sequence is the default instance a protobuf returns for an unset  *)
(* parent.                                                                 *)
(***************************************************************************)
EXTENDS Naturals, Sequences, FiniteSets, TLC

\* Most output chunks the container's output channel delivers in one session.
MaxChunks == 2

\* Most changes of the live executor table while the call is in progress.
MaxTableChanges == 1

\* Most frames the caller of ATTACH_CONTAINER_INPUT sends after the first.
MaxFrames == 2

\* Most persistent-volume operations a framework has accepted.
MaxOperations == 3

\* Most restarts of the agent, and most failovers of the master.
MaxRestarts == 1

NULL == "null"

ExecutorIds == {"e1", "e2"}

\* The container ids a call may carry: an executor's own id, a top-level id
\* that belongs to no executor, children of both executors (one of them named
\* like the other executor), a child of an unknown parent, and a container
\* nested two levels beneath an executor.
ContainerIds ==
  { <<"e1">>, <<"x">>, <<"n", "e1">>, <<"n", "e2">>, <<"e2", "e1">>,
    <<"n", "x">>, <<"n", "m", "e1">> }

NestedCalls == {"LAUNCH_NESTED_CONTAINER", "LAUNCH_NESTED_CONTAINER_SESSION",
                "WAIT_NESTED_CONTAINER", "KILL_NESTED_CONTAINER"}

LaunchCalls == {"LAUNCH_NESTED_CONTAINER", "LAUNCH_NESTED_CONTAINER_SESSION"}

AttachCalls == {"ATTACH_CONTAINER_INPUT", "ATTACH_CONTAINER_OUTPUT"}

Calls == NestedCalls \cup AttachCalls

\* The Call that opens an ATTACH_CONTAINER_INPUT stream (its first frame,
\* decoded by the dispatcher): the type and the container id.
CallMessage == <<"ATTACH_CONTAINER_INPUT", "CONTAINER_ID">>

\* The Calls a caller sends after the first: process input of two lengths.
Messages == { <<"PROCESS_IO", "a">>, <<"PROCESS_IO", "b", "c">> }

\* The three results of ObjectApprover::approved: Try<bool> true, false, error.
Decisions == {"allow", "deny", "error"}

\* An ObjectApprover decides on the object it is given; the object of these
\* calls is told apart by the executor it refers to.
Approvers == [ExecutorIds -> Decisions]

\* The paths of a call that invoke containerizer->destroy.
DestroyPaths == {"launchFailed", "attachFailed", "eof", "relayFailed",
                 "clientClosed"}

(***************************************************************************)
(* ContainerID                                                             *)
(***************************************************************************)
has_parent(id) == Len(id) > 1

parent(id) == IF has_parent(id) THEN Tail(id) ELSE << >>

\* executor->containerId: an executor runs in a top-level container.
ExecutorContainerId(e) == << e >>

(***************************************************************************)
(* Authorization                                                           *)
(***************************************************************************)
\* AcceptingObjectApprover::approved returns true for every object.
AcceptingObjectApprover == [e \in ExecutorIds |-> "allow"]

(***************************************************************************)
(* RecordIO: a record on the wire is the length of the message followed by *)
(* the message.                                                            *)
(***************************************************************************)
\* encoder.encode(call): the serialized message behind its length.
Encode(message) == <<Len(message)>> \o message

\* The decoder's record for a well-formed frame: the message behind the
\* length.
Decode(frame) == Tail(frame)

\* The frames a caller may send after the first, in the order it sends them.
FrameSeqs ==
  UNION { [1..n -> { Encode(m) : m \in Messages }] : n \in 0..MaxFrames }

VARIABLES
  callType,       \* call.type()
  containerId,    \* the call's container_id
  authorizer,     \* slave->authorizer: "none" or "some"
  acls,           \* the approver a configured authorizer hands out
  executors,      \* the executors of slave->frameworks (live table)
  tableChanges,   \* changes of the table so far
  pc,             \* position of the call in its chain of continuations
  approved,       \* Try<bool> approved, "none" before the evaluation
  executor,       \* the executor located by the scan, NULL if none
  launched,       \* Future<bool> launched
  launchClass,    \* container class passed to containerizer->launch
  launchResponse, \* the future returned by _launchNestedContainer
  attachResponse, \* status of the response of connection.send
  attachResponseType,   \* type of the response attachContainerOutput returns
  attachResponseReader, \* whether that response has a reader
  response,       \* the future returned to the HTTP server
  exitStatus,     \* whether the wait response carries an exit status
  termination,    \* Future<Option<ContainerTermination>> of containerizer->wait
  destroy,        \* Future<bool> destroy of killNestedContainer
  authRequests,   \* calls of authorizer->getObjectApprover
  approverEvals,  \* calls of ObjectApprover::approved
  launchOps,      \* calls of containerizer->launch
  attachOps,      \* calls of containerizer->attach
  waitOps,        \* calls of containerizer->wait
  destroyOps,     \* calls of containerizer->destroy
  destroyedBy,    \* the paths that have called containerizer->destroy
  targets,        \* the operations asked of the containerizer, with their ids
  deferred,       \* destroy callbacks dispatched to the agent, not yet run
  cleanups,       \* cleanup destroy futures not yet completed
  cleanupErrors,  \* "Failed to destroy nested container" log lines
  writeEnd,       \* write end of the pipe the handler creates
  readEnd,        \* read end of the pipe the handler creates
  sourceReadEnd,  \* read end of the attach response (source of the relay)
  relay,          \* the future of connect or of recordio::transform
  relayFailure,   \* the failure of a failed relay, "none" otherwise
  chunks,         \* chunks written to the client's response pipe
  buffered,       \* chunks in the response pipe the client has not read
  writerEndings,  \* calls of writer.close and writer.fail by the handler
  readerClosings, \* calls of reader.close by the handler
  inputFrames,    \* the frames of the caller's stream after the first
  decoded,        \* frames the decoder has taken from the caller's stream
  inputWritten,   \* records written to the pipe towards the container
  state,          \* slave->state
  method,         \* request.method
  contentType_,   \* the request's Content-Type header, NULL if absent
  accept,         \* the media types the request's Accept header permits
  body,           \* what the request body (or its first frame) decodes to
  apiPc,          \* position of the request in api and _api
  contentType,    \* ContentType contentType of api
  acceptType,     \* ContentType acceptType of api
  dispatched,     \* the handler _api has called, NULL if none
  framesRead,     \* frames of a streaming body that api has read
  callReader,     \* whether _api was given a reader (Option reader)
  reconnect,      \* slave->recoveryInfo.reconnect
  executorCall,   \* call.type() of a request at the executor endpoint
  frameworkFound, \* whether slave->getFramework finds the call's framework
  executorFound,  \* whether framework->getExecutor finds the call's executor
  executorState,  \* executor->state of that executor
  executorResponse,     \* the response of the executor endpoint
  executorResponseType, \* its type: BODY, or PIPE for a streaming body
  executorAcceptType,   \* ContentType acceptType of the executor endpoint
  subscriptions,  \* calls of slave->subscribe
  statusUpdates,  \* calls of slave->statusUpdate
  executorMessages, \* calls of slave->executorMessage
  operations,     \* the CREATE and DESTROY operations accepted so far
  masterVolumes,  \* the master's record of the agent's persistent volumes
  sent,           \* the CheckpointResourcesMessages sent to the agent
  processed,      \* how many of them the agent has processed
  disk,           \* the resources the agent has checkpointed to disk
  agentVolumes,   \* the agent's checkpointed resources in memory
  registered,     \* whether the agent is registered with the master
  reregistrations, \* checkpointed_resources of each ReregisterSlaveMessage
  offered,        \* the volumes in the resources offered to the framework
  restarts,       \* restarts of the agent so far
  failovers       \* failovers of the master so far

request == <<state, method, contentType_, accept, body>>
api == <<apiPc, contentType, acceptType, dispatched, framesRead,
         callReader>>
executorRequest == <<reconnect, executorCall, frameworkFound, executorFound,
                     executorState>>
forwarded == <<subscriptions, statusUpdates, executorMessages>>
executorApi == <<executorRequest, executorResponse, executorResponseType,
                 executorAcceptType, forwarded>>
volumes == <<operations, masterVolumes, sent, processed, disk, agentVolumes,
             registered, reregistrations, offered, restarts, failovers>>
inputs == <<callType, containerId, authorizer, acls, request, api,
            executorApi, volumes>>
table == <<executors, tableChanges>>
counters == <<authRequests, approverEvals, launchOps, attachOps, waitOps,
              destroyOps, destroyedBy, targets>>
input == <<inputFrames, decoded, inputWritten>>
attachResult == <<attachResponse, attachResponseType, attachResponseReader>>
session == <<attachResult, writeEnd, readEnd, sourceReadEnd, relay,
             relayFailure, chunks, buffered, writerEndings, readerClosings>>
cleanup == <<deferred, cleanups, cleanupErrors>>
handler == <<pc, approved, executor, launched, launchClass, launchResponse,
             response, exitStatus, termination, destroy>>

\* The fields of the handler that the checks and the containerizer set.
checks == <<approved, executor, launched, launchClass, launchResponse,
            exitStatus, termination, destroy>>

vars == <<inputs, input, table, counters, session, cleanup, handler>>

(***************************************************************************)
(* Helpers of the handlers                                                 *)
(***************************************************************************)
Failure(what) == "Failure(" \o what \o ")"

Failures == { Failure(w) : w \in {"approver", "launch", "attach", "send",
                                  "wait", "destroy", "decode", "read"} }

(***************************************************************************)
(* The call endpoint: api and _api                                         *)
(***************************************************************************)
\* The states of the agent (Slave::State).
AgentStates == {"RECOVERING", "DISCONNECTED", "RUNNING", "TERMINATING"}

Methods == {"POST", "GET"}

\* The four content types of the API.
ContentTypes == {"JSON", "PROTOBUF", "STREAMING_JSON", "STREAMING_PROTOBUF"}

\* The values of a Content-Type header: absent, the four media types of the
\* API, one of them with a parameter, and a foreign one.
ContentTypeHeaders ==
  {NULL, "APPLICATION_JSON", "APPLICATION_PROTOBUF",
   "APPLICATION_STREAMING_JSON", "APPLICATION_STREAMING_PROTOBUF",
   "APPLICATION_JSON; charset=utf-8", "text/plain"}

\* What an Accept header permits: any set of the four media types of the
\* API (an absent header permits all of them), or a foreign type only.
AcceptHeaders ==
  SUBSET {"APPLICATION_JSON", "APPLICATION_PROTOBUF",
          "APPLICATION_STREAMING_JSON", "APPLICATION_STREAMING_PROTOBUF"}
    \cup {{"text/plain"}}

\* What the body (or the first frame of a streaming body) holds: a Call that
\* deserializes and validates, bytes that do not deserialize, a Call that
\* fails validation, or nothing at all.
Bodies == {"call", "undecodable", "invalid", "empty"}

\* agent::Call::Type.
CallTypes ==
  {"UNKNOWN", "GET_HEALTH", "GET_FLAGS", "GET_VERSION", "GET_METRICS",
   "GET_LOGGING_LEVEL", "SET_LOGGING_LEVEL", "LIST_FILES", "READ_FILE",
   "GET_STATE", "GET_CONTAINERS", "GET_FRAMEWORKS", "GET_EXECUTORS",
   "GET_TASKS", "LAUNCH_NESTED_CONTAINER", "WAIT_NESTED_CONTAINER",
   "KILL_NESTED_CONTAINER", "LAUNCH_NESTED_CONTAINER_SESSION",
   "ATTACH_CONTAINER_INPUT", "ATTACH_CONTAINER_OUTPUT"}

\* Faulty variant: a disconnected agent answers as a recovering one does.
RecoveringOrDisconnected(st) == st \in {"RECOVERING", "DISCONNECTED"}

\* `slave->state == Slave::RECOVERING`.
Recovering(st) == st = "RECOVERING"

\* Faulty variant: GET is let through.
MethodAllowedWithGet(m) == m \in {"POST", "GET"}

\* `request.method != "POST"` is rejected.
MethodAllowed(m) == m = "POST"

\* Faulty variant: a parameter behind the media type is ignored.
ContentTypeLenient(header) ==
  CASE header \in {"APPLICATION_JSON", "APPLICATION_JSON; charset=utf-8"}
         -> "JSON"
    [] header = "APPLICATION_PROTOBUF" -> "PROTOBUF"
    [] header = "APPLICATION_STREAMING_JSON" -> "STREAMING_JSON"
    [] header = "APPLICATION_STREAMING_PROTOBUF" -> "STREAMING_PROTOBUF"
    [] OTHER -> NULL

\* The ContentType of a Content-Type header that equals one of the four media
\* types, NULL for any other header.
ContentTypeOf(header) ==
  CASE header = "APPLICATION_JSON" -> "JSON"
    [] header = "APPLICATION_PROTOBUF" -> "PROTOBUF"
    [] header = "APPLICATION_STREAMING_JSON" -> "STREAMING_JSON"
    [] header = "APPLICATION_STREAMING_PROTOBUF" -> "STREAMING_PROTOBUF"
    [] OTHER -> NULL

\* request.acceptsMediaType(type).
acceptsMediaType(permitted, type) == type \in permitted

\* Faulty variant: JSON is preferred to the streaming types.
AcceptTypeJsonFirst(permitted) ==
  CASE acceptsMediaType(permitted, "APPLICATION_JSON") -> "JSON"
    [] acceptsMediaType(permitted, "APPLICATION_STREAMING_PROTOBUF")
         -> "STREAMING_PROTOBUF"
    [] acceptsMediaType(permitted, "APPLICATION_STREAMING_JSON")
         -> "STREAMING_JSON"
    [] acceptsMediaType(permitted, "APPLICATION_PROTOBUF") -> "PROTOBUF"
    [] OTHER -> NULL

\* The if-else chain that picks acceptType: the first permitted type in the
\* order of the chain, NULL if none is permitted.
AcceptTypeOf(permitted) ==
  IF acceptsMediaType(permitted, "APPLICATION_STREAMING_PROTOBUF")
    THEN "STREAMING_PROTOBUF"
  ELSE IF acceptsMediaType(permitted, "APPLICATION_STREAMING_JSON")
    THEN "STREAMING_JSON"
  ELSE IF acceptsMediaType(permitted, "APPLICATION_JSON")
    THEN "JSON"
  ELSE IF acceptsMediaType(permitted, "APPLICATION_PROTOBUF")
    THEN "PROTOBUF"
  ELSE NULL

\* The part of api that runs when the request arrives, in the order of its
\* early returns: the agent's state, the method, the Content-Type header, the
\* Accept header.  `result` is the response returned early, or "proceed".
ApiCheck(st, m, header, permitted) ==
  CASE Recovering(st) ->
         [result |-> "503", contentType |-> NULL, acceptType |-> NULL]
    [] ~Recovering(st) /\ ~MethodAllowed(m) ->
         [result |-> "405", contentType |-> NULL, acceptType |-> NULL]
    [] ~Recovering(st) /\ MethodAllowed(m) /\ header = NULL ->
         [result |-> "400", contentType |-> NULL, acceptType |-> NULL]
    [] /\ ~Recovering(st) /\ MethodAllowed(m) /\ header # NULL
       /\ ContentTypeOf(header) = NULL ->
         [result |-> "415", contentType |-> NULL, acceptType |-> NULL]
    [] /\ ~Recovering(st) /\ MethodAllowed(m) /\ header # NULL
       /\ ContentTypeOf(header) # NULL /\ AcceptTypeOf(permitted) = NULL ->
         [result |-> "406", contentType |-> ContentTypeOf(header),
          acceptType |-> NULL]
    [] OTHER ->
         [result |-> "proceed", contentType |-> ContentTypeOf(header),
          acceptType |-> AcceptTypeOf(permitted)]

requestStreaming(type) == type \in {"STREAMING_JSON", "STREAMING_PROTOBUF"}

\* The deserializer of api: deserialize, devolve, validate.
Deserialize(b) == IF b = "call" THEN "call" ELSE "error"

\* What the continuation on the body makes of it before _api: a streaming
\* body is read up to its first record, where the end of the stream is a
\* BadRequest and a record in error fails the response; a body that is not
\* streaming is read to its end and deserialized, an error is a BadRequest.
ReadCall(type, b) ==
  IF requestStreaming(type)
    THEN CASE b = "empty" -> "400"
           [] b # "empty" /\ Deserialize(b) = "error" -> Failure("decode")
           [] OTHER -> "proceed"
    ELSE IF Deserialize(b) = "error" THEN "400" ELSE "proceed"

\* Faulty variant: api reads on until the body has no frame left.
ApiFramesReadAll(type, b, rest) ==
  IF requestStreaming(type) /\ b # "empty" THEN 1 + Len(rest) ELSE 0

\* `reader->read()`, called once: the frames api takes from a streaming
\* body, whose first frame holds `b` and which goes on with `rest`.
ApiFramesRead(type, b, rest) ==
  IF requestStreaming(type) /\ b # "empty" THEN 1 ELSE 0

\* The reader api gives _api: the Reader of a streaming body after its
\* first record, None() for a body read to its end.
ReaderOf(type) == requestStreaming(type)

\* Faulty variant: ATTACH_CONTAINER_INPUT is let through with any type.
StreamingMismatchOneWay(type, call) ==
  requestStreaming(type) /\ call # "ATTACH_CONTAINER_INPUT"

\* The first check of _api: a streaming Content-Type goes with
\* ATTACH_CONTAINER_INPUT and with no other call.
StreamingMismatch(type, call) ==
  \/ requestStreaming(type) /\ call # "ATTACH_CONTAINER_INPUT"
  \/ ~requestStreaming(type) /\ call = "ATTACH_CONTAINER_INPUT"

\* Faulty variant: the session call is handed to the plain launch handler.
HandlerOfSessionAsLaunch(call) ==
  CASE call = "UNKNOWN" -> NULL
    [] call = "LAUNCH_NESTED_CONTAINER_SESSION" -> "LAUNCH_NESTED_CONTAINER"
    [] OTHER -> call

\* The switch of _api: every call type but UNKNOWN has one handler, named
\* here by the type it handles.
HandlerOf(call) == IF call = "UNKNOWN" THEN NULL ELSE call

\* _api: the response it returns itself, or the handler it calls.
ApiDispatch(type, call) ==
  CASE StreamingMismatch(type, call) -> [result |-> "415", handler |-> NULL]
    [] ~StreamingMismatch(type, call) /\ HandlerOf(call) = NULL ->
         [result |-> "501", handler |-> NULL]
    [] OTHER -> [result |-> "proceed", handler |-> HandlerOf(call)]

(***************************************************************************)
(* The executor endpoint: executor                                         *)
(***************************************************************************)
\* executor::Call::Type.
ExecutorCallTypes == {"SUBSCRIBE", "UPDATE", "MESSAGE", "UNKNOWN"}

\* Executor::State.
ExecutorStates == {"REGISTERING", "RUNNING", "TERMINATING", "TERMINATED"}

\* The if-else chain on the Content-Type header: the body is parsed as
\* protobuf or as JSON, any other header is an UnsupportedMediaType.
ExecutorContentTypeOf(header) ==
  CASE header = "APPLICATION_PROTOBUF" -> "PROTOBUF"
    [] header = "APPLICATION_JSON" -> "JSON"
    [] OTHER -> NULL

\* Faulty variant: protobuf is preferred to JSON.
ExecutorAcceptTypeProtobufFirst(permitted) ==
  IF acceptsMediaType(permitted, "APPLICATION_PROTOBUF")
    THEN "PROTOBUF"
  ELSE IF acceptsMediaType(permitted, "APPLICATION_JSON")
    THEN "JSON"
  ELSE NULL

\* The if-else chain that picks acceptType for SUBSCRIBE: JSON first.
ExecutorAcceptTypeOf(permitted) ==
  IF acceptsMediaType(permitted, "APPLICATION_JSON")
    THEN "JSON"
  ELSE IF acceptsMediaType(permitted, "APPLICATION_PROTOBUF")
    THEN "PROTOBUF"
  ELSE NULL

\* Faulty variant: only UPDATE is held back until the executor subscribes.
NotSubscribedUpdateOnly(st, call) == st = "REGISTERING" /\ call = "UPDATE"

\* `executor->state == Executor::REGISTERING &&
\*  call.type() != executor::Call::SUBSCRIBE`.
NotSubscribed(st, call) == st = "REGISTERING" /\ call # "SUBSCRIBE"

\* The response of the switch on call.type().
ExecutorSwitch(call) ==
  CASE call = "SUBSCRIBE" -> "200"
    [] call \in {"UPDATE", "MESSAGE"} -> "202"
    [] OTHER -> "501"

\* executor, in the order of its returns.  `r.call` is the call whose case
\* of the switch runs, NULL when the request is answered before the switch.
ExecutorCheck(rc, st, m, header, permitted, b, call, fw, ex, exSt) ==
  LET reject(code) == [result |-> code, acceptType |-> NULL, call |-> NULL]
      chosen == IF call = "SUBSCRIBE" THEN ExecutorAcceptTypeOf(permitted)
                                      ELSE NULL
  IN  IF ~rc THEN reject("503")
      ELSE IF ~MethodAllowed(m) THEN reject("405")
      ELSE IF header = NULL THEN reject("400")
      ELSE IF ExecutorContentTypeOf(header) = NULL THEN reject("415")
      ELSE IF Deserialize(b) = "error" THEN reject("400")
      ELSE IF call = "SUBSCRIBE" /\ chosen = NULL THEN reject("406")
      ELSE IF call # "SUBSCRIBE" /\ Recovering(st) THEN reject("503")
      ELSE IF ~fw THEN reject("400")
      ELSE IF ~ex THEN reject("400")
      ELSE IF NotSubscribed(exSt, call) THEN reject("403")
      ELSE [result |-> ExecutorSwitch(call), acceptType |-> chosen,
            call |-> IF call = "UNKNOWN" THEN NULL ELSE call]

\* No request has come to the executor endpoint.
NoExecutorCall ==
  /\ reconnect = TRUE
  /\ executorCall = NULL
  /\ frameworkFound = FALSE
  /\ executorFound = FALSE
  /\ executorState = NULL

(***************************************************************************)
(* Persistent volumes (tests/persistent_volume_tests)                      *)
(***************************************************************************)
\* The persistent volumes of the tests: (id1, path1) and (id2, path2).
Volumes == {"volume1", "volume2"}

\* Offer::Operation of type CREATE or DESTROY on one volume.
CreateOperation(v) == <<"CREATE", v>>

DestroyOperation(v) == <<"DESTROY", v>>

\* Faulty variant: a DESTROY leaves the volume in the master's record.
ApplyKeepingDestroyed(vs, operation) ==
  IF operation[1] = "CREATE" THEN vs \cup {operation[2]} ELSE vs

\* The master applies an operation to its record of the agent's volumes.
Apply(vs, operation) ==
  IF operation[1] = "CREATE" THEN vs \cup {operation[2]}
                             ELSE vs \ {operation[2]}

\* Faulty variant: the restarted agent starts from its flags alone.
RecoverNothing(checkpoint) == {}

\* The restarted agent recovers the resources it has checkpointed.
Recover(checkpoint) == checkpoint

\* No framework is using persistent volumes.
NoVolumes ==
  /\ operations = << >>
  /\ masterVolumes = {}
  /\ sent = << >>
  /\ processed = 0
  /\ disk = {}
  /\ agentVolumes = {}
  /\ registered = TRUE
  /\ reregistrations = << >>
  /\ offered = {}
  /\ restarts = 0
  /\ failovers = 0

\* The variables of a call that no step has touched yet.
Fresh ==
  /\ NoVolumes
  /\ executorResponse = "pending"
  /\ executorResponseType = "none"
  /\ executorAcceptType = NULL
  /\ subscriptions = 0
  /\ statusUpdates = 0
  /\ executorMessages = 0
  /\ decoded = 0
  /\ inputWritten = << >>
  /\ relayFailure = "none"
  /\ buffered = 0
  /\ writerEndings = 0
  /\ readerClosings = 0
  /\ tableChanges = 0
  /\ pc = "start"
  /\ approved = "none"
  /\ executor = NULL
  /\ launched = "none"
  /\ launchClass = "none"
  /\ launchResponse = "pending"
  /\ termination = "unset"
  /\ destroy = "unset"
  /\ attachResponse = "none"
  /\ attachResponseType = "none"
  /\ attachResponseReader = FALSE
  /\ response = "pending"
  /\ exitStatus = FALSE
  /\ authRequests = 0
  /\ approverEvals = 0
  /\ launchOps = 0
  /\ attachOps = 0
  /\ waitOps = 0
  /\ destroyOps = 0
  /\ destroyedBy = {}
  /\ targets = {}
  /\ deferred = {}
  /\ cleanups = 0
  /\ cleanupErrors = 0
  /\ writeEnd = "none"
  /\ readEnd = "none"
  /\ sourceReadEnd = "none"
  /\ relay = "none"
  /\ chunks = 0

\* A call at the entry of its handler: the request has passed api, and _api
\* has called the handler of its type.
Init ==
  /\ callType \in Calls
  /\ containerId \in ContainerIds
  /\ inputFrames \in IF callType = "ATTACH_CONTAINER_INPUT" THEN FrameSeqs
                                                            ELSE { << >> }
  /\ \/ authorizer = "none" /\ acls = AcceptingObjectApprover
     \/ authorizer = "some" /\ acls \in Approvers
  /\ executors \in SUBSET ExecutorIds
  /\ state = "RUNNING"
  /\ method = "POST"
  /\ contentType_ = IF callType = "ATTACH_CONTAINER_INPUT"
                      THEN "APPLICATION_STREAMING_JSON"
                      ELSE "APPLICATION_JSON"
  /\ accept = {"APPLICATION_JSON"}
  /\ body = "call"
  /\ apiPc = "dispatched"
  /\ contentType = ContentTypeOf(contentType_)
  /\ acceptType = AcceptTypeOf(accept)
  /\ dispatched = HandlerOf(callType)
  /\ framesRead = ApiFramesRead(contentType, body, inputFrames)
  /\ callReader = ReaderOf(contentType)
  /\ NoExecutorCall
  /\ Fresh

\* Faulty variant: without an authorizer every object is refused.
ObjectApproverDenying(a, acl) ==
  IF a = "some" THEN acl ELSE [e \in ExecutorIds |-> "deny"]

\* The approver of a call: the configured authorizer's, or an always
\* accepting one when no authorizer is configured.
ObjectApproverFor(a, acl) ==
  IF a = "some" THEN acl ELSE AcceptingObjectApprover

\* Faulty variant: the request for an approver is made a second time.
RequestApproverTwice(a, n) == IF a = "some" THEN n + 2 ELSE n

\* getObjectApprover is called iff an authorizer is configured.
RequestApprover(a, n) == IF a = "some" THEN n + 1 ELSE n

\* Faulty variant: the nesting depth is not looked at.
TooDeepUnchecked(id) == FALSE

\* `containerId.parent().has_parent()`: nested two levels beneath an executor.
TooDeep(id) == has_parent(parent(id))

\* Faulty variant: launch scans as wait and kill do.
LocateParentOrSelf(id, execs) ==
  LET found == { e \in execs : \/ ExecutorContainerId(e) = parent(id)
                               \/ ExecutorContainerId(e) = id }
  IN  IF found = {} THEN NULL ELSE CHOOSE e \in found : TRUE

\* Faulty variant: the scan runs on a table of executors that is not the live
\* one (every executor there has ever been).
LocateParentExecutorStale(id, execs) ==
  LET found == { e \in ExecutorIds : ExecutorContainerId(e) = parent(id) }
  IN  IF found = {} THEN NULL ELSE CHOOSE e \in found : TRUE

\* The scan of _launchNestedContainer: the executor whose container is the
\* parent of `id`.  Container ids of executors are unique, so at most one
\* executor matches.
LocateParentExecutor(id, execs) ==
  LET found == { e \in execs : ExecutorContainerId(e) = parent(id) }
  IN  IF found = {} THEN NULL ELSE CHOOSE e \in found : TRUE

\* Faulty variant: wait and kill look for the parent's executor only.
LocateExecutorOfParent(id, execs) ==
  LET found == { e \in execs : ExecutorContainerId(e) = parent(id) }
  IN  IF found = {} THEN NULL ELSE CHOOSE e \in found : TRUE

\* The scan of wait and kill: the executor whose container is `id` or the
\* parent of `id`.
LocateExecutor(id, execs) ==
  LET found == { e \in execs : \/ ExecutorContainerId(e) = parent(id)
                               \/ ExecutorContainerId(e) = id }
  IN  IF found = {} THEN NULL ELSE CHOOSE e \in found : TRUE

\* approver->approved(object) for the object of executor `e`.
Approved(approver, e) == approver[e]

\* Faulty variant: a denied call goes on.
VerdictDenyProceeds(decision) ==
  CASE decision = "error" -> Failure("approver")
    [] decision = "deny"  -> "proceed"
    [] decision = "allow" -> "proceed"

\* Faulty variant: an evaluation error is answered as a denial.
VerdictErrorForbidden(decision) ==
  CASE decision = "error" -> "403"
    [] decision = "deny"  -> "403"
    [] decision = "allow" -> "proceed"

\* What the handler does with the Try<bool>: fail, forbid or go on.
Verdict(decision) ==
  CASE decision = "error" -> Failure("approver")
    [] decision = "deny"  -> "403"
    [] decision = "allow" -> "proceed"

\* Response of a launch whose parent container belongs to no executor.
ParentNotFound == "400"

\* Response of a launch nested deeper than one level.
NestingNotSupported == "501"

\* Response of a wait or kill whose container belongs to no executor.
ContainerNotFound == "404"

\* Faulty variant: every launch passes the class DEFAULT.
ContainerClassDefault(type) == "DEFAULT"

\* The container class of the call: launchNestedContainer passes DEFAULT,
\* launchNestedContainerSession passes DEBUG.
ContainerClass(type) ==
  IF type = "LAUNCH_NESTED_CONTAINER_SESSION" THEN "DEBUG" ELSE "DEFAULT"

\* Faulty variant: a launch the containerizer does not support answers 200.
LaunchedResponseAlwaysOK(outcome) ==
  IF outcome = "failed" THEN Failure("launch") ELSE "200"

\* `launched.then(...)`: the response of a completed launch.
LaunchedResponse(outcome) ==
  CASE outcome = "failed" -> Failure("launch")
    [] outcome = "false"  -> "400"
    [] outcome = "true"   -> "200"

\* Faulty variant: a failed launch is not cleaned up.
OnLaunchFailedNoDestroy(d) == d

\* `launched.onFailed(defer(...))`: dispatches the destroy of the container.
OnLaunchFailed(d) == d \cup {"launchFailed"}

\* Faulty variant: a failed cleanup destroy becomes the call's result.
AfterCleanupMasking(resp, outcome) ==
  IF outcome = "failed" THEN Failure("destroy") ELSE resp

\* The cleanup destroy's onFailed only logs: the response stays what it is.
AfterCleanup(resp, outcome) == resp

\* The checks of _launchNestedContainer before the containerizer is called,
\* in the order of its early returns: nesting depth, the scan for the parent's
\* executor, the approver.  `result` is the response returned early, or
\* "proceed".
LaunchCheck(id, execs, approver) ==
  IF TooDeep(id)
    THEN [result |-> NestingNotSupported, executor |-> NULL,
          approved |-> "none"]
    ELSE LET e == LocateParentExecutor(id, execs) IN
         IF e = NULL
           THEN [result |-> ParentNotFound, executor |-> NULL,
                 approved |-> "none"]
           ELSE [result |-> Verdict(Approved(approver, e)), executor |-> e,
                 approved |-> Approved(approver, e)]

\* Faulty variant: a container that belongs to no executor is refused like
\* a denied one.
WaitCheckForbidding(id, execs, approver) ==
  LET e == LocateExecutor(id, execs) IN
  IF e = NULL
    THEN [result |-> "403", executor |-> NULL, approved |-> "none"]
    ELSE [result |-> Verdict(Approved(approver, e)), executor |-> e,
          approved |-> Approved(approver, e)]

\* The checks of waitNestedContainer's continuation: the scan, the approver.
WaitCheck(id, execs, approver) ==
  LET e == LocateExecutor(id, execs) IN
  IF e = NULL
    THEN [result |-> ContainerNotFound, executor |-> NULL,
          approved |-> "none"]
    ELSE [result |-> Verdict(Approved(approver, e)), executor |-> e,
          approved |-> Approved(approver, e)]

\* The checks of killNestedContainer's continuation: the scan, the approver.
KillCheck(id, execs, approver) ==
  LET e == LocateExecutor(id, execs) IN
  IF e = NULL
    THEN [result |-> ContainerNotFound, executor |-> NULL,
          approved |-> "none"]
    ELSE [result |-> Verdict(Approved(approver, e)), executor |-> e,
          approved |-> Approved(approver, e)]

\* approved() is called once when the scan found an executor.
Evaluations(check) == IF check.approved = "none" THEN 0 ELSE 1

(***************************************************************************)
(* The handlers up to the containerizer call                               *)
(***************************************************************************)
\* The containerizer is asked for `op` on container `id`.
Issued(ts, op, id) == ts \cup {<<op, id>>}

\* Faulty variant: the cleanup destroys the parent container.
DestroyTargetParent(id) == parent(id)

\* `slave->containerizer->destroy(containerId)`: the container a destroy is
\* asked for is the one of the call.
DestroyTarget(id) == id

\* The handler is entered: it asks the authorizer for an approver, or makes
\* an accepting one, and registers its continuation with the agent actor.
Handler ==
  /\ pc = "start"
  /\ callType \in NestedCalls
  /\ dispatched = HandlerOf(callType)
  /\ authRequests' = RequestApprover(authorizer, authRequests)
  /\ pc' = IF authorizer = "some" THEN "approver_pending" ELSE "approver_ready"
  /\ UNCHANGED <<inputs, input, table, session, cleanup, approved, executor,
                 launched, launchClass, launchResponse, response, exitStatus,
                 approverEvals, launchOps, attachOps, waitOps, destroyOps,
                 destroyedBy,
                 termination, destroy, targets>>

\* The authorizer completes the future of getObjectApprover: it answers a
\* request with an approver (allowing, denying or failing to decide).
ApproverResolved ==
  /\ pc = "approver_pending"
  /\ pc' = "approver_ready"
  /\ UNCHANGED <<inputs, input, table, counters, session, cleanup, approved,
                 executor, launched, launchClass, launchResponse, response,
                 exitStatus,
                 termination, destroy>>

\* The response of _launchNestedContainer is the response of a plain launch;
\* a session continues on it, unless it is a failure, which `then` passes on.
LaunchReturns(resp) ==
  /\ launchResponse' = resp
  /\ IF callType = "LAUNCH_NESTED_CONTAINER" \/ resp \in Failures
       THEN response' = resp /\ pc' = "done"
       ELSE response' = response /\ pc' = "launched"

\* _launchNestedContainer, run by the agent actor once the approver is there.
LaunchContinuation ==
  /\ pc = "approver_ready"
  /\ callType \in LaunchCalls
  /\ LET c == LaunchCheck(containerId, executors,
                          ObjectApproverFor(authorizer, acls)) IN
     /\ executor' = c.executor
     /\ approved' = c.approved
     /\ approverEvals' = approverEvals + Evaluations(c)
     /\ IF c.result = "proceed"
          THEN /\ launchOps' = launchOps + 1
               /\ targets' = Issued(targets, "launch", containerId)
               /\ launched' = "pending"
               /\ launchClass' = ContainerClass(callType)
               /\ pc' = "launching"
               /\ UNCHANGED <<launchResponse, response>>
          ELSE /\ LaunchReturns(c.result)
               /\ UNCHANGED <<launched, launchClass, launchOps, targets>>
  /\ UNCHANGED <<inputs, input, table, session, cleanup, exitStatus,
                 authRequests, attachOps, waitOps, destroyOps, destroyedBy,
                 termination, destroy>>

\* The containerizer completes the launch: accepted, not supported, or failed.
LaunchCompletes(outcome) ==
  /\ pc = "launching"
  /\ launched = "pending"
  /\ launched' = outcome
  /\ LaunchReturns(LaunchedResponse(outcome))
  /\ deferred' = IF outcome = "failed" THEN OnLaunchFailed(deferred)
                                       ELSE deferred
  /\ UNCHANGED <<inputs, input, table, counters, session, cleanups,
                 cleanupErrors, approved, executor, launchClass, exitStatus,
                 termination, destroy>>

\* The continuation of waitNestedContainer.
WaitContinuation ==
  /\ pc = "approver_ready"
  /\ callType = "WAIT_NESTED_CONTAINER"
  /\ LET c == WaitCheck(containerId, executors,
                        ObjectApproverFor(authorizer, acls)) IN
     /\ executor' = c.executor
     /\ approved' = c.approved
     /\ approverEvals' = approverEvals + Evaluations(c)
     /\ IF c.result = "proceed"
          THEN /\ waitOps' = waitOps + 1
               /\ targets' = Issued(targets, "wait", containerId)
               /\ termination' = "pending"
               /\ pc' = "waiting"
               /\ UNCHANGED response
          ELSE /\ response' = c.result
               /\ pc' = "done"
               /\ UNCHANGED <<waitOps, termination, targets>>
  /\ UNCHANGED <<inputs, input, table, session, cleanup, launched, launchClass,
                 launchResponse, exitStatus, destroy, authRequests, launchOps,
                 attachOps, destroyOps, destroyedBy>>

\* Faulty variant: a wait without a termination answers 200.
WaitResponseAlwaysOK(outcome) ==
  IF outcome = "failed" THEN Failure("wait") ELSE "200"

\* The response to the completed wait: the failure of a failed future,
\* NotFound when there is no termination, OK otherwise.
WaitResponse(outcome) ==
  CASE outcome = "failed" -> Failure("wait")
    [] outcome = "none"   -> ContainerNotFound
    [] OTHER              -> "200"

\* `if (termination->has_status())`: the body of the OK response carries
\* the exit status of a termination that has one.
HasExitStatus(outcome) == outcome = "status"

\* The containerizer completes the wait: failed, no termination, or a
\* termination with or without a status.
WaitCompletes(outcome) ==
  /\ pc = "waiting"
  /\ termination' = outcome
  /\ response' = WaitResponse(outcome)
  /\ exitStatus' = HasExitStatus(outcome)
  /\ pc' = "done"
  /\ UNCHANGED <<inputs, input, table, counters, session, cleanup, approved,
                 executor, launched, launchClass, launchResponse, destroy>>

\* The continuation of killNestedContainer.
KillContinuation ==
  /\ pc = "approver_ready"
  /\ callType = "KILL_NESTED_CONTAINER"
  /\ LET c == KillCheck(containerId, executors,
                        ObjectApproverFor(authorizer, acls)) IN
     /\ executor' = c.executor
     /\ approved' = c.approved
     /\ approverEvals' = approverEvals + Evaluations(c)
     /\ IF c.result = "proceed"
          THEN /\ destroyOps' = destroyOps + 1
               /\ destroyedBy' = destroyedBy \cup {"kill"}
               /\ targets' = Issued(targets, "destroy", containerId)
               /\ destroy' = "pending"
               /\ pc' = "killing"
               /\ UNCHANGED response
          ELSE /\ response' = c.result
               /\ pc' = "done"
               /\ UNCHANGED <<destroyOps, destroyedBy, destroy, targets>>
  /\ UNCHANGED <<inputs, input, table, session, cleanup, launched, launchClass,
                 launchResponse, exitStatus, termination, authRequests,
                 launchOps, attachOps, waitOps>>

\* Faulty variant: a kill answers 200 whether or not the container was found.
KillResponseAlwaysOK(outcome) ==
  IF outcome = "failed" THEN Failure("destroy") ELSE "200"

\* The response to the completed destroy: the failure of a failed future,
\* NotFound when the container was not found, OK when it was.
KillResponse(outcome) ==
  CASE outcome = "failed" -> Failure("destroy")
    [] outcome = "false"  -> ContainerNotFound
    [] outcome = "true"   -> "200"

\* The containerizer completes the destroy of a kill: found, not found, failed.
KillCompletes(outcome) ==
  /\ pc = "killing"
  /\ destroy' = outcome
  /\ response' = KillResponse(outcome)
  /\ pc' = "done"
  /\ UNCHANGED <<inputs, input, table, counters, session, cleanup, approved,
                 executor, launched, launchClass, launchResponse, exitStatus,
                 termination>>

(***************************************************************************)
(* http::Pipe: the two ends of a pipe.  A write is accepted only while     *)
(* both ends are open; close and fail take an end out of OPEN once; the    *)
(* writer is told of the reader's close if its own end is still open.      *)
(***************************************************************************)
WriteAccepted(w, r) == w = "OPEN" /\ r = "OPEN"

WriterClose(w) == IF w = "OPEN" THEN "CLOSED" ELSE w

WriterFail(w) == IF w = "OPEN" THEN "FAILED" ELSE w

ReaderClose(r) == IF r = "OPEN" THEN "CLOSED" ELSE r

ReaderClosedNotified(w, r) == r = "OPEN" /\ w = "OPEN"

IsSessionCall(type) == type = "LAUNCH_NESTED_CONTAINER_SESSION"

(***************************************************************************)
(* Callbacks of the session that dispatch the destroy of the container     *)
(***************************************************************************)
\* `.onFailed(defer(...))` on the attach step.
OnAttachFailed(d) == d \cup {"attachFailed"}

\* Faulty variant: EOF of the output does not destroy the container.
OnRelayReadyNoDestroy(d) == d

\* `.onReady(defer(...))` on connect: the output reached EOF.
OnRelayReady(d) == d \cup {"eof"}

\* `.onFailed(defer(...))` on connect: a read or a write failed.
OnRelayFailed(d) == d \cup {"relayFailed"}

\* `writer.readerClosed().onAny(defer(...))`: the client went away.
OnReaderClosed(d) == d \cup {"clientClosed"}

\* Faulty variant: the attach step asks for an approver of its own.
AttachRequestsApproverAgain(n) == n + 1

\* attachContainerOutput asks the authorizer for nothing.
AttachRequestsApprover(n) == n

(***************************************************************************)
(* launchNestedContainerSession after the launch                           *)
(***************************************************************************)
\* The continuation on the launch response: a response other than 200 is
\* returned as it is, otherwise the agent attaches to the container's output.
SessionContinuation ==
  /\ pc = "launched"
  /\ IF launchResponse # "200"
       THEN /\ response' = launchResponse
            /\ pc' = "done"
            /\ UNCHANGED <<attachOps, authRequests, targets>>
       ELSE /\ attachOps' = attachOps + 1
            /\ targets' = Issued(targets, "attach", containerId)
            /\ authRequests' = AttachRequestsApprover(authRequests)
            /\ pc' = "attaching"
            /\ UNCHANGED response
  /\ UNCHANGED <<inputs, input, table, session, cleanup, approved, executor,
                 launched, launchClass, launchResponse, exitStatus,
                 approverEvals, launchOps, waitOps, destroyOps, destroyedBy,
                 termination, destroy>>

\* attachContainerOutput called for its own call: it attaches at once.
AttachOutputHandler ==
  /\ pc = "start"
  /\ callType = "ATTACH_CONTAINER_OUTPUT"
  /\ dispatched = HandlerOf(callType)
  /\ attachOps' = attachOps + 1
  /\ targets' = Issued(targets, "attach", containerId)
  /\ authRequests' = AttachRequestsApprover(authRequests)
  /\ pc' = "attaching"
  /\ UNCHANGED <<inputs, input, table, session, cleanup, checks, response,
                 approverEvals, launchOps, waitOps, destroyOps, destroyedBy>>

\* containerizer->attach of attachContainerOutput completes: a connection, or
\* a failure, which in a session dispatches the destroy.
AttachCompletes(outcome) ==
  /\ pc = "attaching"
  /\ callType # "ATTACH_CONTAINER_INPUT"
  /\ IF outcome = "failed"
       THEN /\ response' = Failure("attach")
            /\ deferred' = IF IsSessionCall(callType)
                             THEN OnAttachFailed(deferred) ELSE deferred
            /\ pc' = "done"
       ELSE /\ pc' = "sending"
            /\ UNCHANGED <<response, deferred>>
  /\ UNCHANGED <<inputs, input, table, counters, session, cleanups,
                 cleanupErrors, checks>>

\* The completion handler of the transform of attachContainerOutput: the
\* writer of the response pipe is closed, or failed with the failure of the
\* relay, and the reader of the attach response is closed.
OutputTransformCompletes(result) ==
  /\ relay' = result
  /\ writeEnd' = IF result = "ready" THEN WriterClose(writeEnd)
                                     ELSE WriterFail(writeEnd)
  /\ sourceReadEnd' = ReaderClose(sourceReadEnd)
  /\ writerEndings' = writerEndings + 1
  /\ readerClosings' = readerClosings + 1

\* The response of connection.send(request, true): the body of a streamed
\* response is a pipe, whatever its status.
StreamedResponse(status) ==
  [status |-> status, type |-> "PIPE", reader |-> TRUE]

\* Faulty variant: a response other than 200 is returned with its body read.
AttachOutputResponseBody(status) ==
  IF status = "200" THEN [status |-> "200", type |-> "PIPE", reader |-> TRUE]
                    ELSE [status |-> status, type |-> "BODY", reader |-> FALSE]

\* What attachContainerOutput returns on the response of the send: the
\* response as it is when its status is not 200, otherwise `ok`, whose type
\* is PIPE and whose reader is the reader of a fresh pipe.
AttachOutputResponse(status) ==
  IF status = "200" THEN [status |-> "200", type |-> "PIPE", reader |-> TRUE]
                    ELSE StreamedResponse(status)

\* connection.send(request, true) completes: a failure, or a streamed
\* response.  A session continues on it; attachContainerOutput on its own
\* returns a response other than 200 as it is, and for 200 the response that
\* carries the reader of a fresh pipe fed by the transform of the records.
SendCompletes(outcome) ==
  /\ pc = "sending"
  /\ callType # "ATTACH_CONTAINER_INPUT"
  /\ CASE outcome = "failed" ->
            /\ response' = Failure("send")
            /\ deferred' = IF IsSessionCall(callType)
                             THEN OnAttachFailed(deferred) ELSE deferred
            /\ pc' = "done"
            /\ UNCHANGED <<attachResult, writeEnd, readEnd, sourceReadEnd,
                           relay>>
       [] outcome # "failed" /\ IsSessionCall(callType) ->
            /\ attachResponse' = outcome
            /\ attachResponseType' = AttachOutputResponse(outcome).type
            /\ attachResponseReader' = AttachOutputResponse(outcome).reader
            /\ pc' = "attached"
            /\ UNCHANGED <<response, deferred, writeEnd, readEnd,
                           sourceReadEnd, relay>>
       [] outcome = "non200" /\ ~IsSessionCall(callType) ->
            /\ attachResponse' = outcome
            /\ attachResponseType' = AttachOutputResponse(outcome).type
            /\ attachResponseReader' = AttachOutputResponse(outcome).reader
            /\ response' = outcome
            /\ pc' = "done"
            /\ UNCHANGED <<deferred, writeEnd, readEnd, sourceReadEnd, relay>>
       [] outcome = "200" /\ ~IsSessionCall(callType) ->
            /\ attachResponse' = outcome
            /\ attachResponseType' = AttachOutputResponse(outcome).type
            /\ attachResponseReader' = AttachOutputResponse(outcome).reader
            /\ writeEnd' = "OPEN"
            /\ readEnd' = "OPEN"
            /\ sourceReadEnd' = "OPEN"
            /\ relay' = "reading"
            /\ response' = "200"
            /\ pc' = "streaming"
            /\ UNCHANGED deferred
  /\ UNCHANGED <<inputs, input, table, counters, cleanups, cleanupErrors,
                 checks, relayFailure, chunks, buffered, writerEndings,
                 readerClosings>>

\* The next record of the transform of attachContainerOutput: a record, which
\* is re-encoded and written to the response pipe before the next is read,
\* the end of the container's output, or a read or decoding error.
OutputTransformRead(outcome) ==
  /\ callType = "ATTACH_CONTAINER_OUTPUT"
  /\ relay = "reading"
  /\ CASE outcome = "record" ->
            IF WriteAccepted(writeEnd, readEnd)
              THEN /\ chunks < MaxChunks
                   /\ chunks' = chunks + 1
                   /\ buffered' = buffered + 1
                   /\ UNCHANGED <<relay, relayFailure, writeEnd,
                                  sourceReadEnd, writerEndings,
                                  readerClosings>>
              ELSE /\ OutputTransformCompletes("failed")
                   /\ relayFailure' = "write"
                   /\ UNCHANGED <<chunks, buffered>>
       [] outcome = "eof" ->
            /\ OutputTransformCompletes("ready")
            /\ UNCHANGED <<relayFailure, chunks, buffered>>
       [] outcome = "error" ->
            /\ OutputTransformCompletes("failed")
            /\ relayFailure' = "read"
            /\ UNCHANGED <<chunks, buffered>>
  /\ UNCHANGED <<inputs, input, table, counters, cleanup, handler,
                 attachResult, readEnd>>

\* `CHECK_EQ(Response::PIPE, response.type); CHECK_SOME(response.reader)`.
SessionChecks(type, reader) == type = "PIPE" /\ reader

\* The continuation on the attach response: a fresh pipe towards the client,
\* connect from the attach response's reader to the pipe's writer, and the
\* 200 response that carries the pipe's reader.  A CHECK that fails aborts
\* the agent.
AttachedContinuation ==
  /\ pc = "attached"
  /\ IF SessionChecks(attachResponseType, attachResponseReader)
       THEN /\ writeEnd' = "OPEN"
            /\ readEnd' = "OPEN"
            /\ sourceReadEnd' = "OPEN"
            /\ relay' = "reading"
            /\ response' = "200"
            /\ pc' = "streaming"
       ELSE /\ pc' = "aborted"
            /\ UNCHANGED <<writeEnd, readEnd, sourceReadEnd, relay, response>>
  /\ UNCHANGED <<inputs, input, table, counters, cleanup, checks,
                 attachResult, relayFailure, chunks, buffered,
                 writerEndings, readerClosings>>

\* connect's future completes; its onAny callback closes or fails the writer
\* and closes the source, and a destroy is dispatched to the agent.
RelayCompletes(result) ==
  /\ relay' = result
  /\ writeEnd' = IF result = "ready" THEN WriterClose(writeEnd)
                                     ELSE WriterFail(writeEnd)
  /\ sourceReadEnd' = ReaderClose(sourceReadEnd)
  /\ writerEndings' = writerEndings + 1
  /\ readerClosings' = readerClosings + 1
  /\ deferred' = IF result = "ready" THEN OnRelayReady(deferred)
                                     ELSE OnRelayFailed(deferred)

\* Faulty variant: a discarded read discards the future of connect.
ConnectResultDiscarding(outcome) ==
  CASE outcome = "eof"       -> "ready"
    [] outcome = "failed"    -> "failed"
    [] outcome = "discarded" -> "discarded"

\* The future connect returns for a read that ends the relay: Nothing() for
\* the empty chunk of EOF, a Failure for a read that is not ready, failed or
\* discarded.
ConnectResult(outcome) ==
  CASE outcome = "eof"       -> "ready"
    [] outcome = "failed"    -> "failed"
    [] outcome = "discarded" -> "failed"

\* `chunk.isFailed() ? chunk.failure() : "discarded"`: the message of the
\* Failure for a read that is not ready.
ReadFailure(outcome) == IF outcome = "failed" THEN "read" ELSE "discarded"

\* The pending read of connect completes: a chunk, which is written to the
\* client's pipe before the next read is issued, EOF, a failure or a discard.
RelayRead(outcome) ==
  /\ IsSessionCall(callType)
  /\ relay = "reading"
  /\ CASE outcome = "chunk" ->
            IF WriteAccepted(writeEnd, readEnd)
              THEN /\ chunks < MaxChunks
                   /\ chunks' = chunks + 1
                   /\ buffered' = buffered + 1
                   /\ UNCHANGED <<relay, relayFailure, writeEnd,
                                  sourceReadEnd, writerEndings,
                                  readerClosings, deferred>>
              ELSE /\ RelayCompletes("failed")
                   /\ relayFailure' = "write"
                   /\ UNCHANGED <<chunks, buffered>>
       [] outcome = "eof" ->
            /\ RelayCompletes(ConnectResult(outcome))
            /\ UNCHANGED <<relayFailure, chunks, buffered>>
       [] outcome \in {"failed", "discarded"} ->
            /\ RelayCompletes(ConnectResult(outcome))
            /\ relayFailure' = ReadFailure(outcome)
            /\ UNCHANGED <<chunks, buffered>>
  /\ UNCHANGED <<inputs, input, table, counters, handler, attachResult,
                 readEnd, cleanups, cleanupErrors>>

\* The HTTP server takes a chunk from the response pipe and sends it to the
\* client.
ClientRead ==
  /\ pc = "streaming"
  /\ readEnd = "OPEN"
  /\ buffered > 0
  /\ buffered' = buffered - 1
  /\ UNCHANGED <<inputs, input, table, counters, cleanup, handler,
                 attachResult, writeEnd, readEnd, sourceReadEnd, relay,
                 relayFailure, chunks, writerEndings, readerClosings>>

\* The HTTP server closes the reader of the response pipe: the client's
\* connection is gone, or the response has been sent to its end.  Chunks not
\* yet read are dropped; a session is told through writer.readerClosed().
ClientClose ==
  /\ pc = "streaming"
  /\ readEnd = "OPEN"
  /\ readEnd' = ReaderClose(readEnd)
  /\ buffered' = 0
  /\ deferred' = IF /\ IsSessionCall(callType)
                    /\ ReaderClosedNotified(writeEnd, readEnd)
                   THEN OnReaderClosed(deferred) ELSE deferred
  /\ UNCHANGED <<inputs, input, table, counters, handler, attachResult,
                 writeEnd, sourceReadEnd, relay, relayFailure, chunks,
                 writerEndings, readerClosings, cleanups, cleanupErrors>>

(***************************************************************************)
(* attachContainerInput                                                    *)
(***************************************************************************)
\* Faulty variant: a record is put in front of those written before.
WriteRecordFirst(written, record) == <<record>> \o written

\* writer.write(record) on a pipe that accepts it: the record follows those
\* written before.
WriteRecord(written, record) == Append(written, record)

\* The handler is entered: a fresh pipe, the first record (the Call the
\* dispatcher decoded, encoded again) written to it, the transform of the
\* remaining frames started, and the attach to the container requested.
AttachInputHandler ==
  /\ pc = "start"
  /\ callType = "ATTACH_CONTAINER_INPUT"
  /\ dispatched = HandlerOf(callType)
  /\ writeEnd' = "OPEN"
  /\ readEnd' = "OPEN"
  /\ inputWritten' = WriteRecord(inputWritten, Encode(CallMessage))
  /\ relay' = "reading"
  /\ attachOps' = attachOps + 1
  /\ targets' = Issued(targets, "attach", containerId)
  /\ pc' = "attaching"
  /\ UNCHANGED <<inputs, inputFrames, decoded, table, cleanup, checks,
                 response, attachResult, sourceReadEnd, relayFailure,
                 chunks, buffered, writerEndings, readerClosings,
                 authRequests, approverEvals, launchOps, waitOps, destroyOps,
                 destroyedBy>>

\* `transform.onAny(...)` is registered by the continuation of a successful
\* attach, and by nothing else.
InputHandlerRegistered(p, resp) ==
  \/ p = "sending"
  \/ p = "done" /\ resp # Failure("attach")

\* The completion handler of the transform of attachContainerInput: the
\* writer of the pipe is closed, or failed with the failure of the relay, and
\* its reader is closed.
InputTransformHandled(result) ==
  /\ writeEnd' = IF result = "ready" THEN WriterClose(writeEnd)
                                     ELSE WriterFail(writeEnd)
  /\ readEnd' = ReaderClose(readEnd)
  /\ writerEndings' = writerEndings + 1
  /\ readerClosings' = readerClosings + 1

\* The transform's future completes; the completion handler runs if it is
\* registered by then.
InputTransformCompletes(result) ==
  /\ relay' = result
  /\ IF InputHandlerRegistered(pc, response)
       THEN InputTransformHandled(result)
       ELSE UNCHANGED <<writeEnd, readEnd, writerEndings, readerClosings>>

\* The next record of the transform of attachContainerInput: a frame of the
\* caller's stream, which is decoded, encoded again and written to the pipe
\* before the next is read, the end of the stream, or a read or decoding
\* error.
InputTransformRead(outcome) ==
  /\ callType = "ATTACH_CONTAINER_INPUT"
  /\ relay = "reading"
  /\ CASE outcome = "record" ->
            /\ decoded < Len(inputFrames)
            /\ decoded' = decoded + 1
            /\ IF WriteAccepted(writeEnd, readEnd)
                 THEN /\ inputWritten' =
                           WriteRecord(inputWritten,
                                       Encode(Decode(inputFrames[decoded + 1])))
                      /\ UNCHANGED <<relay, relayFailure, writeEnd, readEnd,
                                     writerEndings, readerClosings>>
                 ELSE /\ InputTransformCompletes("failed")
                      /\ relayFailure' = "write"
                      /\ UNCHANGED inputWritten
       [] outcome = "eof" ->
            /\ decoded = Len(inputFrames)
            /\ InputTransformCompletes("ready")
            /\ UNCHANGED <<relayFailure, decoded, inputWritten>>
       [] outcome = "error" ->
            /\ InputTransformCompletes("failed")
            /\ relayFailure' = "read"
            /\ UNCHANGED <<decoded, inputWritten>>
  /\ UNCHANGED <<inputs, inputFrames, table, counters, cleanup, handler,
                 attachResult, sourceReadEnd, chunks, buffered>>

\* containerizer->attach of attachContainerInput completes.  A failure fails
\* the response.  With a connection the continuation registers the completion
\* handler of the transform, which runs at once if the transform is already
\* complete, and sends the request that carries the pipe's reader.
InputAttachCompletes(outcome) ==
  /\ pc = "attaching"
  /\ callType = "ATTACH_CONTAINER_INPUT"
  /\ IF outcome = "failed"
       THEN /\ response' = Failure("attach")
            /\ pc' = "done"
            /\ UNCHANGED <<writeEnd, readEnd, writerEndings, readerClosings>>
       ELSE /\ pc' = "sending"
            /\ UNCHANGED response
            /\ IF relay \in {"ready", "failed"}
                 THEN InputTransformHandled(relay)
                 ELSE UNCHANGED <<writeEnd, readEnd, writerEndings,
                                  readerClosings>>
  /\ UNCHANGED <<inputs, input, table, counters, cleanup, checks,
                 attachResult, sourceReadEnd, relay, relayFailure, chunks,
                 buffered>>

\* connection.send(request) completes: the container's response, or a
\* failure.
InputSendCompletes(outcome) ==
  /\ pc = "sending"
  /\ callType = "ATTACH_CONTAINER_INPUT"
  /\ response' = IF outcome = "failed" THEN Failure("send") ELSE outcome
  /\ pc' = "done"
  /\ UNCHANGED <<inputs, input, table, counters, session, cleanup, checks>>

(***************************************************************************)
(* Cleanup                                                                 *)
(***************************************************************************)
\* The agent runs a dispatched callback: containerizer->destroy(containerId).
RunDeferred(path) ==
  /\ path \in deferred
  /\ deferred' = deferred \ {path}
  /\ destroyOps' = destroyOps + 1
  /\ destroyedBy' = destroyedBy \cup {path}
  /\ targets' = Issued(targets, "destroy", DestroyTarget(containerId))
  /\ cleanups' = cleanups + 1
  /\ UNCHANGED <<inputs, input, table, session, handler, cleanupErrors,
                 authRequests, approverEvals, launchOps, attachOps, waitOps>>

\* A cleanup destroy completes; its failure is logged.
CleanupCompletes(outcome) ==
  /\ cleanups > 0
  /\ cleanups' = cleanups - 1
  /\ cleanupErrors' = IF outcome = "failed" THEN cleanupErrors + 1
                                            ELSE cleanupErrors
  /\ response' = AfterCleanup(response, outcome)
  /\ UNCHANGED <<inputs, input, table, counters, session, deferred, pc,
                 approved, executor, launched, launchClass, launchResponse,
                 exitStatus, termination, destroy>>

(***************************************************************************)
(* The agent's executor table                                              *)
(***************************************************************************)
\* Another event of the agent adds or removes an executor.
TableChange(e) ==
  /\ tableChanges < MaxTableChanges
  /\ tableChanges' = tableChanges + 1
  /\ executors' = IF e \in executors THEN executors \ {e}
                                     ELSE executors \cup {e}
  /\ UNCHANGED <<inputs, input, counters, session, cleanup, handler>>

(***************************************************************************)
(* api and _api                                                            *)
(***************************************************************************)
\* The request arrives: api answers it at once, or issues the read of the
\* body and registers its continuation with the agent actor.
Api ==
  /\ apiPc = "start"
  /\ LET c == ApiCheck(state, method, contentType_, accept) IN
     /\ contentType' = c.contentType
     /\ acceptType' = c.acceptType
     /\ IF c.result = "proceed"
          THEN apiPc' = "reading" /\ UNCHANGED response
          ELSE apiPc' = "rejected" /\ response' = c.result
  /\ UNCHANGED <<callType, containerId, authorizer, acls, request,
                 executorApi, volumes, dispatched, framesRead, callReader,
                 input, table, counters, session, cleanup, pc, checks>>

\* The read of the body completes (the first record of a streaming body, the
\* whole of any other), or fails.  The continuation decodes the Call and
\* runs _api, which answers the request itself or calls the handler of the
\* call's type.
\* CHECK_SOME(reader) in the case of ATTACH_CONTAINER_INPUT aborts the agent
\* when _api was given no reader.
BodyRead(io) ==
  /\ apiPc = "reading"
  /\ callReader' = (io # "failed" /\ ReadCall(contentType, body) = "proceed"
                      /\ ReaderOf(contentType))
  /\ framesRead' = IF io = "failed" THEN 0
                    ELSE ApiFramesRead(contentType, body, inputFrames)
  /\ decoded' = IF framesRead' > 1 THEN framesRead' - 1 ELSE 0
  /\ IF io = "failed"
       THEN /\ response' = Failure("read")
            /\ apiPc' = "done"
            /\ UNCHANGED dispatched
       ELSE IF ReadCall(contentType, body) # "proceed"
         THEN /\ response' = ReadCall(contentType, body)
              /\ apiPc' = "done"
              /\ UNCHANGED dispatched
         ELSE LET d == ApiDispatch(contentType, callType) IN
              IF d.result = "proceed"
                THEN IF d.handler = "ATTACH_CONTAINER_INPUT" /\ ~callReader'
                       THEN /\ apiPc' = "aborted"
                            /\ UNCHANGED <<dispatched, response>>
                       ELSE /\ dispatched' = d.handler
                            /\ apiPc' = "dispatched"
                            /\ UNCHANGED response
                ELSE /\ response' = d.result
                     /\ apiPc' = "done"
                     /\ UNCHANGED dispatched
  /\ UNCHANGED <<callType, containerId, authorizer, acls, request,
                 executorApi, volumes, contentType, acceptType, inputFrames,
                 inputWritten, table, counters, session, cleanup, pc, checks>>

(***************************************************************************)
(* executor                                                                *)
(***************************************************************************)
\* A request at the executor endpoint is answered: the whole of executor
\* runs in the agent actor, with the call it forwards to the agent.
ExecutorEndpoint ==
  /\ executorCall # NULL
  /\ executorResponse = "pending"
  /\ LET r == ExecutorCheck(reconnect, state, method, contentType_, accept,
                            body, executorCall, frameworkFound, executorFound,
                            executorState)
     IN  /\ executorResponse' = r.result
         /\ executorAcceptType' = r.acceptType
         /\ executorResponseType' = IF r.call = "SUBSCRIBE" THEN "PIPE"
                                                            ELSE "BODY"
         /\ subscriptions' = subscriptions +
                               (IF r.call = "SUBSCRIBE" THEN 1 ELSE 0)
         /\ statusUpdates' = statusUpdates +
                               (IF r.call = "UPDATE" THEN 1 ELSE 0)
         /\ executorMessages' = executorMessages +
                                  (IF r.call = "MESSAGE" THEN 1 ELSE 0)
  /\ UNCHANGED <<callType, containerId, authorizer, acls, request, api,
                 executorRequest, volumes, input, table, counters, session,
                 cleanup, handler>>

(***************************************************************************)
(* Persistent volumes                                                      *)
(***************************************************************************)
\* The framework accepts an offer with one more CREATE or DESTROY, which the
\* master finds valid: it applies it and sends the agent the resources to
\* checkpoint, then offers what the agent has again.
AcceptOperation(operation) ==
  /\ registered
  /\ Len(operations) < MaxOperations
  /\ IF operation[1] = "CREATE" THEN operation[2] \notin masterVolumes
                                 ELSE operation[2] \in masterVolumes
  /\ operations' = Append(operations, operation)
  /\ masterVolumes' = Apply(masterVolumes, operation)
  /\ sent' = Append(sent, masterVolumes')
  /\ offered' = masterVolumes'
  /\ UNCHANGED <<callType, containerId, authorizer, acls, request, api,
                 executorApi, processed, disk, agentVolumes, registered,
                 reregistrations, restarts, failovers, input, table, counters,
                 session, cleanup, handler>>

\* The agent processes the next CheckpointResourcesMessage: it writes the
\* resources to disk and takes them as its checkpointed resources.
AgentCheckpoints ==
  /\ registered
  /\ processed < Len(sent)
  /\ processed' = processed + 1
  /\ disk' = sent[processed + 1]
  /\ agentVolumes' = sent[processed + 1]
  /\ UNCHANGED <<callType, containerId, authorizer, acls, request, api,
                 executorApi, operations, masterVolumes, sent, registered,
                 reregistrations, offered, restarts, failovers, input, table,
                 counters, session, cleanup, handler>>

\* The agent is stopped and started again, all messages to it processed.
AgentRestart ==
  /\ registered
  /\ processed = Len(sent)
  /\ restarts < MaxRestarts
  /\ restarts' = restarts + 1
  /\ agentVolumes' = Recover(disk)
  /\ registered' = FALSE
  /\ offered' = {}
  /\ UNCHANGED <<callType, containerId, authorizer, acls, request, api,
                 executorApi, operations, masterVolumes, sent, processed, disk,
                 reregistrations, failovers, input, table, counters, session,
                 cleanup, handler>>

\* The master is stopped and a new one started, which knows no agent.
MasterFailover ==
  /\ registered
  /\ processed = Len(sent)
  /\ failovers < MaxRestarts
  /\ failovers' = failovers + 1
  /\ masterVolumes' = {}
  /\ registered' = FALSE
  /\ offered' = {}
  /\ UNCHANGED <<callType, containerId, authorizer, acls, request, api,
                 executorApi, operations, sent, processed, disk, agentVolumes,
                 reregistrations, restarts, input, table, counters, session,
                 cleanup, handler>>

\* The agent re-registers: its ReregisterSlaveMessage carries its
\* checkpointed resources, which the master records and offers.
AgentReregisters ==
  /\ ~registered
  /\ reregistrations' = Append(reregistrations, agentVolumes)
  /\ masterVolumes' = agentVolumes
  /\ registered' = TRUE
  /\ offered' = agentVolumes
  /\ UNCHANGED <<callType, containerId, authorizer, acls, request, api,
                 executorApi, operations, sent, processed, disk, agentVolumes,
                 restarts, failovers, input, table, counters, session, cleanup,
                 handler>>

(***************************************************************************)
(* Specification                                                           *)
(***************************************************************************)
Next ==
  \/ Handler
  \/ AttachOutputHandler
  \/ \E o \in {"record", "eof", "error"} : OutputTransformRead(o)
  \/ AttachInputHandler
  \/ \E o \in {"record", "eof", "error"} : InputTransformRead(o)
  \/ \E o \in {"connection", "failed"} : InputAttachCompletes(o)
  \/ \E o \in {"200", "non200", "failed"} : InputSendCompletes(o)
  \/ ClientRead
  \/ ApproverResolved
  \/ LaunchContinuation
  \/ \E o \in {"true", "false", "failed"} : LaunchCompletes(o)
  \/ WaitContinuation
  \/ \E o \in {"failed", "none", "status", "nostatus"} : WaitCompletes(o)
  \/ KillContinuation
  \/ \E o \in {"true", "false", "failed"} : KillCompletes(o)
  \/ SessionContinuation
  \/ \E o \in {"connection", "failed"} : AttachCompletes(o)
  \/ \E o \in {"200", "non200", "failed"} : SendCompletes(o)
  \/ AttachedContinuation
  \/ \E o \in {"chunk", "eof", "failed", "discarded"} : RelayRead(o)
  \/ ClientClose
  \/ \E p \in DestroyPaths : RunDeferred(p)
  \/ \E o \in {"true", "false", "failed"} : CleanupCompletes(o)
  \/ \E e \in ExecutorIds : TableChange(e)

Spec == Init /\ [][Next]_vars

\* The agent actor runs every continuation and callback dispatched to it.
AgentRuns ==
  /\ WF_vars(LaunchContinuation)
  /\ WF_vars(WaitContinuation)
  /\ WF_vars(KillContinuation)
  /\ WF_vars(SessionContinuation)
  /\ WF_vars(AttachedContinuation)
  /\ WF_vars(\E p \in DestroyPaths : RunDeferred(p))

FairSpec == Spec /\ AgentRuns

\* A request at the call endpoint: any state of the agent, method, headers
\* and body.  The type of the Call matters only where the body holds one.
ApiInit ==
  /\ state \in AgentStates
  /\ method \in Methods
  /\ contentType_ \in ContentTypeHeaders
  /\ accept \in AcceptHeaders
  /\ body \in Bodies
  /\ callType \in IF body = "call" THEN CallTypes ELSE {"UNKNOWN"}
  /\ containerId = <<"n", "e1">>
  /\ inputFrames \in IF contentType_ \in {"APPLICATION_STREAMING_JSON",
                                          "APPLICATION_STREAMING_PROTOBUF"}
                         /\ body # "empty"
                      THEN FrameSeqs ELSE { << >> }
  /\ authorizer \in {"none", "some"}
  /\ acls = AcceptingObjectApprover
  /\ executors = {"e1"}
  /\ apiPc = "start"
  /\ contentType = NULL
  /\ acceptType = NULL
  /\ dispatched = NULL
  /\ framesRead = 0
  /\ callReader = FALSE
  /\ NoExecutorCall
  /\ Fresh

\* The request up to the entry of the handler _api calls.
ApiNext ==
  \/ Api
  \/ \E io \in {"ok", "failed"} : BodyRead(io)
  \/ Handler
  \/ AttachOutputHandler
  \/ AttachInputHandler

ApiSpec == ApiInit /\ [][ApiNext]_vars

\* A request at the executor endpoint: any state of the agent, method,
\* headers, body and call, and any state of the executor it names.  While
\* recoveryInfo.reconnect is not set the agent is RECOVERING (the CHECK at
\* the top of executor).
ExecutorInit ==
  /\ state \in AgentStates
  /\ reconnect \in IF Recovering(state) THEN BOOLEAN ELSE {TRUE}
  /\ method \in Methods
  /\ contentType_ \in ContentTypeHeaders
  /\ accept \in AcceptHeaders
  /\ body \in Bodies
  /\ executorCall \in IF body = "call" THEN ExecutorCallTypes ELSE {"UNKNOWN"}
  /\ frameworkFound \in BOOLEAN
  /\ executorFound \in IF frameworkFound THEN BOOLEAN ELSE {FALSE}
  /\ executorState \in IF executorFound THEN ExecutorStates ELSE {NULL}
  /\ callType = "UNKNOWN"
  /\ containerId = <<"n", "e1">>
  /\ inputFrames = << >>
  /\ authorizer = "none"
  /\ acls = AcceptingObjectApprover
  /\ executors = {"e1"}
  /\ apiPc = "start"
  /\ contentType = NULL
  /\ acceptType = NULL
  /\ dispatched = NULL
  /\ framesRead = 0
  /\ callReader = FALSE
  /\ Fresh

ExecutorNext == ExecutorEndpoint

\* A registered agent without persistent volumes, and no call at the
\* endpoints of its HTTP API.
VolumeInit ==
  /\ callType = "UNKNOWN"
  /\ containerId = <<"n", "e1">>
  /\ inputFrames = << >>
  /\ authorizer = "none"
  /\ acls = AcceptingObjectApprover
  /\ executors = {"e1"}
  /\ state = "RUNNING"
  /\ method = "POST"
  /\ contentType_ = NULL
  /\ accept = {}
  /\ body = "empty"
  /\ apiPc = "start"
  /\ contentType = NULL
  /\ acceptType = NULL
  /\ dispatched = NULL
  /\ framesRead = 0
  /\ callReader = FALSE
  /\ NoExecutorCall
  /\ Fresh

VolumeNext ==
  \/ \E v \in Volumes : AcceptOperation(CreateOperation(v))
  \/ \E v \in Volumes : AcceptOperation(DestroyOperation(v))
  \/ AgentCheckpoints
  \/ AgentRestart
  \/ MasterFailover
  \/ AgentReregisters

VolumeSpec == VolumeInit /\ [][VolumeNext]_vars

ExecutorSpec == ExecutorInit /\ [][ExecutorNext]_vars

(***************************************************************************)
(* Properties                                                              *)
(***************************************************************************)
IsSession == callType = "LAUNCH_NESTED_CONTAINER_SESSION"

IsLaunch == callType = "LAUNCH_NESTED_CONTAINER"

\* No containerizer operation has been invoked or is dispatched.
ContainerizerUntouched ==
  /\ launchOps = 0
  /\ attachOps = 0
  /\ waitOps = 0
  /\ destroyOps = 0
  /\ deferred = {}

\* C1: in a session, over every sequence of its terminal events (launch
\* failure, attach failure, output EOF, relay read or write error, client
\* close), containerizer->destroy is invoked at most once.
C1_DestroyAtMostOnce == IsSession => destroyOps <= 1

\* A terminal event of a session has occurred: the launch failed, the attach
\* step failed, the output reached EOF, or the client's reader is closed.
SessionTerminalEvent ==
  /\ IsSession
  /\ \/ launched = "failed"
     \/ response \in {Failure("attach"), Failure("send")}
     \/ relay = "ready"
     \/ readEnd = "CLOSED"

\* C2: in a session, once the launch has failed, the attach step has failed,
\* the output has reached EOF or the client's connection is closed, a destroy
\* of the container is eventually issued (the agent actor being scheduled
\* fairly).
C2_DestroyEventually == SessionTerminalEvent ~> (destroyOps >= 1)

\* The client went away while the output was still streaming, and the
\* container has been destroyed for it.
C2_Witness ==
  /\ IsSession
  /\ readEnd = "CLOSED"
  /\ relay = "reading"
  /\ destroyedBy = {"clientClosed"}

\* C3: in a plain launch, containerizer->destroy is invoked exactly once after
\* a failed containerizer launch (one destroy is dispatched at the failure and
\* run once), never before the failure, never without it and never twice,
\* whatever the destroy itself results in.
C3_DestroyOnceAfterLaunchFailure ==
  IsLaunch =>
    /\ launched # "failed" => destroyOps = 0 /\ deferred = {}
    /\ launched = "failed" =>
         \/ destroyOps = 0 /\ deferred = {"launchFailed"}
         \/ destroyOps = 1 /\ deferred = {} /\ destroyedBy = {"launchFailed"}

\* The launch failed, the destroy was invoked once and failed as well.
C3_Witness ==
  /\ IsLaunch
  /\ launched = "failed"
  /\ destroyOps = 1
  /\ cleanups = 0
  /\ cleanupErrors = 1

\* C4: when the containerizer launch fails, the caller gets the launch
\* failure, from the moment of the failure on and for every outcome of the
\* cleanup destroy.
C4_LaunchFailureReturned ==
  launched = "failed" => response = Failure("launch")

\* The cleanup destroy of a failed session launch has failed and was logged;
\* the caller still has the launch failure.
C4_Witness ==
  /\ IsSession
  /\ launched = "failed"
  /\ cleanupErrors = 1
  /\ response = Failure("launch")

\* The continuation of the call has run: the checks are behind it.
Checked == pc \notin {"start", "approver_pending", "approver_ready"}

\* C5: in a launch or a session, once the approver has denied the object the
\* launch step answers 403, the call ends with 403, and neither launch nor
\* attach nor destroy is invoked.
C5_DeniedLaunchForbidden ==
  (callType \in LaunchCalls /\ approved = "deny") =>
    /\ launchResponse = "403"
    /\ response \in {"pending", "403"}
    /\ pc = "done" => response = "403"
    /\ launched = "none"
    /\ ContainerizerUntouched

\* A denied session has ended with 403.
C5_Witness ==
  /\ IsSession
  /\ approved = "deny"
  /\ pc = "done"
  /\ response = "403"

\* C6: in launch, session, wait and kill, once the approver's evaluation has
\* returned an error the call has failed (it is not answered 403) and no
\* containerizer operation is invoked.
C6_ApproverErrorFails ==
  approved = "error" =>
    /\ response = Failure("approver")
    /\ pc = "done"
    /\ ContainerizerUntouched

\* A kill whose approver could not decide has failed.
C6_Witness ==
  /\ callType = "KILL_NESTED_CONTAINER"
  /\ approved = "error"
  /\ response = Failure("approver")

\* C7: a launch or session whose container id is nested more than one level
\* deep (id.parent.parent is set) is answered 501 and invokes no containerizer
\* operation, whatever the executor table and the authorizer.
C7_DeepNestingNotImplemented ==
  (callType \in LaunchCalls /\ Len(containerId) > 2) =>
    /\ ContainerizerUntouched
    /\ approverEvals = 0
    /\ response \in {"pending", "501"}
    /\ Checked => launchResponse = "501"
    /\ pc = "done" => response = "501"

\* A session two levels deep was answered 501 although its root is a live
\* executor the configured authorizer would allow.
C7_Witness ==
  /\ IsSession
  /\ Len(containerId) > 2
  /\ containerId[3] \in executors
  /\ authorizer = "some"
  /\ acls[containerId[3]] = "allow"
  /\ response = "501"

\* The parent of the call's container is the container of no live executor.
NoParentExecutor ==
  \A e \in executors : ~(Len(containerId) = 2 /\ containerId[2] = e)

AllowAll == [e \in ExecutorIds |-> "allow"]

\* C9: without an authorizer no call is answered 403 or fails in
\* authorization, no approver is requested, and the checks of launch, session,
\* wait and kill come out as they do under an authorizer that allows every
\* object.
C9_NoAuthorizerAllows ==
  authorizer = "none" =>
    /\ authRequests = 0
    /\ approved \in {"none", "allow"}
    /\ response \notin {"403", Failure("approver")}
    /\ launchResponse \notin {"403", Failure("approver")}
    /\ LaunchCheck(containerId, executors, ObjectApproverFor("none", acls))
         = LaunchCheck(containerId, executors,
                       ObjectApproverFor("some", AllowAll))
    /\ WaitCheck(containerId, executors, ObjectApproverFor("none", acls))
         = WaitCheck(containerId, executors,
                     ObjectApproverFor("some", AllowAll))
    /\ KillCheck(containerId, executors, ObjectApproverFor("none", acls))
         = KillCheck(containerId, executors,
                     ObjectApproverFor("some", AllowAll))

\* A wait without an authorizer went through to the containerizer and was
\* answered 200.
C9_Witness ==
  /\ authorizer = "none"
  /\ callType = "WAIT_NESTED_CONTAINER"
  /\ approved = "allow"
  /\ waitOps = 1
  /\ response = "200"

\* A launch, session, wait or kill is past its authorization: a containerizer
\* operation was issued.
Authorized ==
  /\ callType \in NestedCalls
  /\ pc \in {"launching", "attaching", "sending", "attached", "streaming",
             "waiting", "killing"}

\* C10: in every call the approver is requested at most once (once iff an
\* authorizer is configured and the handler was entered) and evaluated at most
\* once (once iff the scan found an executor); nothing is requested or
\* evaluated again later in the call, the attach step and the streaming of a
\* session included.
C10_AuthorizedOnce ==
  /\ authRequests = IF /\ callType \in NestedCalls
                       /\ authorizer = "some"
                       /\ pc # "start"
                      THEN 1 ELSE 0
  /\ approverEvals = IF approved = "none" THEN 0 ELSE 1
  /\ Authorized => approverEvals = 1
  /\ Checked /\ executor # NULL => approverEvals = 1

\* A session under an authorizer has streamed output to its end: one request,
\* one evaluation.
C10_Witness ==
  /\ IsSession
  /\ authorizer = "some"
  /\ relay = "ready"
  /\ chunks > 0
  /\ authRequests = 1
  /\ approverEvals = 1

(***************************************************************************)
(* Wait and kill                                                           *)
(***************************************************************************)
\* The executors of `execs` whose container is `id` itself or the parent of
\* `id`, spelled out on the values of the id.
Matching(id, execs) ==
  { e \in execs : id = <<e>> \/ (Len(id) = 2 /\ id[2] = e) }

\* The continuation of wait or kill runs its scan in this step.
Scans(type) == callType = type /\ pc = "approver_ready" /\ pc' # pc

\* C11: a wait resolves to an executor exactly when some executor of the table
\* runs in the container of the id or in its parent, and then to that one: a
\* wait by the executor's own id and a wait by a child's id both reach
\* containerizer->wait once allowed; an id that matches no executor is
\* answered 404 and the containerizer is not invoked.
C11_WaitRouting ==
  /\ [][Scans("WAIT_NESTED_CONTAINER") =>
          LET m == Matching(containerId, executors) IN
          /\ (executor' # NULL) <=> (m # {})
          /\ executor' # NULL => executor' \in m
          /\ m = {} => response' = "404" /\ waitOps' = 0 /\ pc' = "done"
          /\ (m # {} /\ approved' = "allow")
               => waitOps' = 1 /\ pc' = "waiting"]_vars
  /\ [](callType = "WAIT_NESTED_CONTAINER" /\ Checked /\ executor = NULL
        => /\ ContainerizerUntouched
           /\ response = "404"
           /\ termination = "unset")

\* A wait by the executor's own container id was routed to that executor and
\* reached the containerizer.
C11_Witness ==
  /\ callType = "WAIT_NESTED_CONTAINER"
  /\ containerId = <<"e1">>
  /\ executor = "e1"
  /\ waitOps = 1
  /\ pc = "waiting"

\* C12: the containerizer's wait is invoked only for an executor that was
\* found and allowed; when it yields no termination the response is 404, when
\* it yields a termination the response is 200 and carries an exit status
\* exactly when the termination has one.
C12_WaitResponse ==
  callType = "WAIT_NESTED_CONTAINER" =>
    /\ termination # "unset" => executor # NULL /\ approved = "allow"
    /\ termination = "none" => response = "404" /\ ~exitStatus
    /\ termination = "status" => response = "200" /\ exitStatus
    /\ termination = "nostatus" => response = "200" /\ ~exitStatus

\* A wait ended with a termination that has no status: 200 without an exit
\* status.
C12_Witness ==
  /\ callType = "WAIT_NESTED_CONTAINER"
  /\ termination = "nostatus"
  /\ response = "200"
  /\ ~exitStatus

\* C13: a kill whose id matches no executor (as itself or as parent) is
\* answered 404 and destroy is not invoked; a kill whose executor is found and
\* allowed invokes destroy once, and is answered 200 when the containerizer
\* found the container and 404 when it did not.
C13_KillRouting ==
  /\ [][Scans("KILL_NESTED_CONTAINER") =>
          LET m == Matching(containerId, executors) IN
          /\ (executor' # NULL) <=> (m # {})
          /\ m = {} => response' = "404" /\ destroyOps' = 0 /\ pc' = "done"
          /\ (m # {} /\ approved' = "allow")
               => destroyOps' = 1 /\ destroy' = "pending"]_vars
  /\ [](callType = "KILL_NESTED_CONTAINER"
        => /\ destroyOps = IF destroy = "unset" THEN 0 ELSE 1
           /\ deferred = {}
           /\ destroy # "unset" => executor # NULL /\ approved = "allow"
           /\ destroy = "true" => response = "200"
           /\ destroy = "false" => response = "404")

\* A kill was allowed, destroy ran once and did not find the container: 404.
C13_Witness ==
  /\ callType = "KILL_NESTED_CONTAINER"
  /\ approved = "allow"
  /\ destroy = "false"
  /\ destroyOps = 1
  /\ response = "404"

(***************************************************************************)
(* The launch step of launch and session                                   *)
(***************************************************************************)
\* C14: when the containerizer completes the launch with false, the launch
\* step answers 400, the call ends with 400, and no destroy (and no attach)
\* is issued or dispatched, in a plain launch and in a session; when it
\* completes with true a plain launch is answered 200.
C14_LaunchNotSupported ==
  /\ launched = "false"
       => /\ launchResponse = "400"
          /\ response \in {"pending", "400"}
          /\ pc = "done" => response = "400"
          /\ destroyOps = 0
          /\ deferred = {}
          /\ attachOps = 0
  /\ (IsLaunch /\ launched = "true") => response = "200" /\ pc = "done"

\* A session whose launch completed with false has ended with 400.
C14_Witness ==
  /\ IsSession
  /\ launched = "false"
  /\ pc = "done"
  /\ response = "400"
  /\ destroyOps = 0

\* C15: a session launches with the class DEBUG and a plain launch with
\* DEFAULT; a plain launch never attaches; a session attaches once, and only
\* after its launch step produced 200; when the launch step fails or answers
\* something else the session never attaches and returns that response
\* unchanged.
C15_SessionLaunchThenAttach ==
  /\ (IsLaunch /\ launchOps > 0) => launchClass = "DEFAULT"
  /\ (IsSession /\ launchOps > 0) => launchClass = "DEBUG"
  /\ IsLaunch => attachOps = 0
  /\ IsSession =>
       /\ attachOps \in {0, 1}
       /\ attachOps = 1 => launchResponse = "200" /\ launched = "true"
       /\ launchResponse \notin {"pending", "200"}
            => /\ attachOps = 0
               /\ response \in {"pending", launchResponse}
               /\ pc = "done" => response = launchResponse

\* A session launched with DEBUG, its launch step answered 200 and it has
\* attached to the container's output.
C15_Witness ==
  /\ IsSession
  /\ launchClass = "DEBUG"
  /\ launchResponse = "200"
  /\ attachOps = 1

(***************************************************************************)
(* The relays                                                              *)
(***************************************************************************)
\* The call streams the container's output to the client.
StreamsOutput ==
  callType \in {"LAUNCH_NESTED_CONTAINER_SESSION", "ATTACH_CONTAINER_OUTPUT"}

\* C16: the relay towards the client issues its next read only once the sink
\* has taken the record before it off its hands, so that at most one record
\* written by the relay waits for the client, however slowly the client reads.
C16_OneRecordInFlight ==
  (StreamsOutput /\ pc = "streaming") => buffered <= 1

Ended(pipeEnd) == pipeEnd \in {"CLOSED", "FAILED"}

\* C18: in the relays of attachContainerInput and attachContainerOutput,
\* whatever the attach step came to, once the attach step is over and the
\* relay of the records has completed, the handler has closed or failed the
\* writer exactly once and closed the reader exactly once, and neither end is
\* open.
C18_PipeEndsClosedOnce ==
  (callType \in AttachCalls /\ relay \in {"ready", "failed"}
     /\ pc # "attaching")
    => /\ writerEndings = 1
       /\ readerClosings = 1
       /\ Ended(writeEnd)
       /\ callType = "ATTACH_CONTAINER_INPUT" => Ended(readEnd)
       /\ callType = "ATTACH_CONTAINER_OUTPUT" => Ended(sourceReadEnd)

\* C19: once the client of an attachContainerOutput response has closed its
\* end, the agent comes to close the reader of the container's output
\* connection, whether or not the container produces anything further (the
\* part of the claim on the relay of attachContainerOutput; the destroy of a
\* session after the client's close is C2).
C19_ClientCloseReleasesUpstream ==
  (callType = "ATTACH_CONTAINER_OUTPUT" /\ pc = "streaming"
     /\ readEnd = "CLOSED")
    ~> (sourceReadEnd = "CLOSED")

\* C20: the records attachContainerInput has written towards the container
\* are the Call of the first frame, encoded again, followed by the frames the
\* transform has taken from the caller's stream, each once and in the
\* caller's order; when the relay ends at the end of the stream every frame
\* has been written.
C20_InputRecordsInOrder ==
  (callType = "ATTACH_CONTAINER_INPUT" /\ pc # "start") =>
    /\ decoded <= Len(inputFrames)
    /\ inputWritten =
         <<Encode(CallMessage)>> \o SubSeq(inputFrames, 1, decoded)
    /\ relay = "ready" => decoded = Len(inputFrames)

\* A caller sent two different frames after the Call; the relay has reached
\* the end of the stream with three records written.
C20_Witness ==
  /\ callType = "ATTACH_CONTAINER_INPUT"
  /\ Len(inputFrames) = 2
  /\ inputFrames[1] # inputFrames[2]
  /\ relay = "ready"
  /\ Len(inputWritten) = 3

(***************************************************************************)
(* The call endpoint                                                       *)
(***************************************************************************)
\* No handler has been called, and neither the authorizer nor the
\* containerizer has been asked for anything.
NothingInvoked ==
  /\ dispatched = NULL
  /\ pc = "start"
  /\ authRequests = 0
  /\ approverEvals = 0
  /\ ContainerizerUntouched

\* The body was read and held a Call that deserialized and validated: _api
\* has run on it.
ReachedApi ==
  /\ apiPc \in {"done", "dispatched", "aborted"}
  /\ body = "call"
  /\ response # Failure("read")

StreamingHeaders ==
  {"APPLICATION_STREAMING_JSON", "APPLICATION_STREAMING_PROTOBUF"}

SupportedHeaders ==
  {"APPLICATION_JSON", "APPLICATION_PROTOBUF"} \cup StreamingHeaders

\* The Content-Type of the request does not go with the type of its Call.
Mismatched ==
  (contentType_ \in StreamingHeaders) # (callType = "ATTACH_CONTAINER_INPUT")

\* C21: a decoded call of a type other than ATTACH_CONTAINER_INPUT under a
\* streaming Content-Type, and an ATTACH_CONTAINER_INPUT under one that is not
\* streaming, are answered 415; no handler, authorizer or containerizer
\* operation is invoked.
C21_StreamingMismatchUnsupported ==
  (ReachedApi /\ Mismatched) => response = "415" /\ NothingInvoked

\* A WAIT_NESTED_CONTAINER sent as the first record of a streaming body was
\* answered 415.
C21_Witness ==
  /\ ReachedApi
  /\ contentType_ = "APPLICATION_STREAMING_JSON"
  /\ callType = "WAIT_NESTED_CONTAINER"
  /\ response = "415"
  /\ authorizer = "some"

\* C22: under each of the four content types, a body (or first frame) that
\* cannot be decoded into a Call, or whose Call fails validation, is answered
\* 400 once it has been read, and no handler is called.
C22_UndecodableBadRequest ==
  (apiPc = "done" /\ body \in {"undecodable", "invalid"}
     /\ response # Failure("read"))
    => response = "400" /\ NothingInvoked

\* C23 as stated: every decoded Call is routed to the one handler of its
\* type, and a Call of type UNKNOWN is answered 501 without a handler.
C23_DispatchTotal ==
  ReachedApi =>
    IF callType = "UNKNOWN"
      THEN response = "501" /\ NothingInvoked
      ELSE dispatched = callType /\ response = "pending"

\* C23: every decoded Call whose type goes with the request's Content-Type is
\* routed to the one handler of its type, and only that handler is entered; a
\* Call of type UNKNOWN under a Content-Type that is not streaming is answered
\* 501 without a handler (under a streaming one it is answered 415).
C23_DispatchTotalWhenMatched ==
  /\ dispatched \in {NULL} \cup (CallTypes \ {"UNKNOWN"})
  /\ pc # "start" => dispatched = callType
  /\ (ReachedApi /\ ~Mismatched) =>
       IF callType = "UNKNOWN"
         THEN response = "501" /\ NothingInvoked
         ELSE dispatched = callType /\ response = "pending"
  /\ (ReachedApi /\ Mismatched /\ callType = "UNKNOWN") => response = "415"

\* A Call of type UNKNOWN in a JSON body was answered 501.
C23_Witness ==
  /\ ReachedApi
  /\ callType = "UNKNOWN"
  /\ contentType_ = "APPLICATION_JSON"
  /\ response = "501"
  /\ NothingInvoked

\* A POST has reached an agent that is not recovering.
PostToRunningAgent ==
  /\ apiPc # "start"
  /\ state # "RECOVERING"
  /\ method = "POST"

\* C24: a POST to an agent that is not recovering is answered 400 when it has
\* no Content-Type header and 415 when its Content-Type is not exactly one of
\* the four media types; in both cases the body is not read and nothing is
\* dispatched.
C24_ContentTypeRequired ==
  PostToRunningAgent =>
    /\ contentType_ = NULL
         => response = "400" /\ apiPc = "rejected" /\ NothingInvoked
    /\ contentType_ \notin SupportedHeaders \cup {NULL}
         => response = "415" /\ apiPc = "rejected" /\ NothingInvoked

\* A POST whose Content-Type is a supported media type with a parameter was
\* answered 415 although its body holds a valid Call.
C24_Witness ==
  /\ PostToRunningAgent
  /\ contentType_ = "APPLICATION_JSON; charset=utf-8"
  /\ body = "call"
  /\ response = "415"
  /\ apiPc = "rejected"

\* The order in which the response content types are tried.
AcceptOrder ==
  << <<"APPLICATION_STREAMING_PROTOBUF", "STREAMING_PROTOBUF">>,
     <<"APPLICATION_STREAMING_JSON", "STREAMING_JSON">>,
     <<"APPLICATION_JSON", "JSON">>,
     <<"APPLICATION_PROTOBUF", "PROTOBUF">> >>

\* C25: for a request that has passed the checks of state, method and
\* Content-Type, the response content type is the first of
\* STREAMING_PROTOBUF, STREAMING_JSON, JSON, PROTOBUF that the Accept header
\* permits; when it permits none the request is answered 406, the body is not
\* read and nothing is dispatched.
C25_AcceptNegotiation ==
  (PostToRunningAgent /\ contentType_ \in SupportedHeaders) =>
    LET permitted == { i \in 1..4 : AcceptOrder[i][1] \in accept } IN
    IF permitted = {}
      THEN response = "406" /\ apiPc = "rejected" /\ NothingInvoked
      ELSE /\ \E i \in permitted :
                /\ \A j \in permitted : i <= j
                /\ acceptType = AcceptOrder[i][2]
           /\ response # "406"

\* A request that permits STREAMING_PROTOBUF and JSON got STREAMING_PROTOBUF.
C25_Witness ==
  /\ PostToRunningAgent
  /\ accept = {"APPLICATION_STREAMING_PROTOBUF", "APPLICATION_JSON"}
  /\ acceptType = "STREAMING_PROTOBUF"
  /\ apiPc = "dispatched"

\* C26: a request to the call endpoint is answered 503 exactly when the agent
\* is RECOVERING, whatever its method, headers and body; the body is not read
\* and neither handler nor authorizer nor containerizer is invoked.
C26_RecoveringUnavailable ==
  apiPc # "start" =>
    /\ (response = "503") <=> (state = "RECOVERING")
    /\ state = "RECOVERING" => apiPc = "rejected" /\ NothingInvoked

\* A GET without Content-Type to a recovering agent was answered 503.
C26_Witness ==
  /\ state = "RECOVERING"
  /\ method = "GET"
  /\ contentType_ = NULL
  /\ response = "503"

\* C27: a request with a method other than POST to an agent that is not
\* recovering is answered 405 before its headers are looked at or its body is
\* read, and nothing is dispatched.
C27_PostOnly ==
  (apiPc # "start" /\ state # "RECOVERING" /\ method # "POST") =>
    /\ response = "405"
    /\ apiPc = "rejected"
    /\ contentType = NULL
    /\ acceptType = NULL
    /\ NothingInvoked

\* A GET without a Content-Type header was answered 405, not 400.
C27_Witness ==
  /\ state = "RUNNING"
  /\ method = "GET"
  /\ contentType_ = NULL
  /\ response = "405"

(***************************************************************************)
(* Retries, atomicity, targets                                             *)
(***************************************************************************)
\* The operations a call asks of the authorizer and of the containerizer's
\* launch, wait and attach.
Attempts == <<authRequests, launchOps, waitOps, attachOps>>

\* C28: within one call the authorizer is asked for an approver at most once
\* and launch, wait and attach are invoked at most once each, by the calls
\* they belong to; a failed authorization, launch, wait, attach, send or relay
\* ends the call (or its stream) in that failure, and once the call has
\* failed no operation is attempted again.
C28_NoRetries ==
  /\ [](/\ authRequests <= 1
        /\ launchOps <= 1
        /\ waitOps <= 1
        /\ attachOps <= 1
        /\ launchOps = 1 => callType \in LaunchCalls
        /\ waitOps = 1 => callType = "WAIT_NESTED_CONTAINER"
        /\ attachOps = 1 => IsSession \/ callType \in AttachCalls
        /\ approved = "error"
             => launchResponse \in {"pending", Failure("approver")}
                /\ response = Failure("approver") /\ pc = "done"
        /\ launched = "failed"
             => response = Failure("launch") /\ pc = "done"
        /\ termination = "failed"
             => response = Failure("wait") /\ pc = "done"
        /\ response \in Failures => pc = "done"
        /\ relay = "failed" => relayFailure # "none")
  /\ [][/\ response \in Failures => Attempts' = Attempts
        /\ relay \in {"ready", "failed"}
             => /\ relay' = relay
                /\ chunks' = chunks
                /\ decoded' = decoded]_vars

\* A session whose attach failed after a successful launch has ended in that
\* failure with one launch and one attach.
C28_Witness ==
  /\ IsSession
  /\ authorizer = "some"
  /\ response = Failure("attach")
  /\ authRequests = 1
  /\ launchOps = 1
  /\ attachOps = 1

\* This step invokes the containerizer operation of a launch, a session, a
\* wait or a kill.
Invokes ==
  \/ launchOps' = launchOps + 1
  \/ waitOps' = waitOps + 1
  \/ callType = "KILL_NESTED_CONTAINER" /\ destroyOps' = destroyOps + 1

\* C29: in launch, session, wait and kill the step that invokes the
\* containerizer operation is the step that scans the table and evaluates the
\* approver: before it neither has happened, in it the table does not change,
\* and the executor it authorized is in the table as the table is at the
\* invocation; changes of the table happen in steps of their own.
C29_LookupAndInvocationAtomic ==
  /\ [][Invokes =>
          /\ pc = "approver_ready"
          /\ executor = NULL
          /\ approved = "none"
          /\ executors' = executors
          /\ executor' \in executors'
          /\ approved' = "allow"
          /\ approverEvals' = approverEvals + 1]_vars
  /\ [][executors' # executors => UNCHANGED <<handler, counters>>]_vars

\* A launch was invoked for an executor of a table that had changed while
\* the call was waiting for its approver.
C29_Witness ==
  /\ IsLaunch
  /\ authorizer = "some"
  /\ tableChanges = 1
  /\ pc = "launching"
  /\ launchOps = 1
  /\ executor \in executors


(***************************************************************************)
(* C30: every operation asked of the containerizer while a call is handled *)
(* (launch, attach, wait, destroy) is asked for exactly the ContainerID    *)
(* the call carries, so no call operates on the container of another call; *)
(* and every operation counted was asked for that ContainerID.             *)
(***************************************************************************)
OpCount(op) ==
  CASE op = "launch"  -> launchOps
    [] op = "attach"  -> attachOps
    [] op = "wait"    -> waitOps
    [] op = "destroy" -> destroyOps

ExecutorWellFormed ==
  /\ reconnect
  /\ method = "POST"
  /\ contentType_ \in {"APPLICATION_JSON", "APPLICATION_PROTOBUF"}
  /\ body = "call"
  /\ executorCall = "SUBSCRIBE" =>
        accept \cap {"APPLICATION_JSON", "APPLICATION_PROTOBUF"} # {}
  /\ executorCall # "SUBSCRIBE" => state # "RECOVERING"

\* The call names a framework and an executor the agent knows.
ExecutorKnown == frameworkFound /\ executorFound

\* The request is accepted: nothing rejects it before the switch.
ExecutorAccepted ==
  /\ ExecutorWellFormed
  /\ ExecutorKnown
  /\ executorCall # "SUBSCRIBE" => executorState # "REGISTERING"

(***************************************************************************)
(* C31: on the executor endpoint SUBSCRIBE is answered 200 with a          *)
(* streaming body exactly when the call is accepted; UPDATE and MESSAGE    *)
(* are answered 202 exactly when accepted, after exactly one status update *)
(* or executor message went to the agent; a call other than SUBSCRIBE from *)
(* an executor still REGISTERING is answered 403 and forwards nothing; a   *)
(* call naming an unknown framework or executor is answered 400.           *)
(***************************************************************************)
C31_ExecutorCalls ==
  executorResponse # "pending" =>
    /\ executorResponse = "200" <=>
          (executorCall = "SUBSCRIBE" /\ ExecutorAccepted)
    /\ executorResponseType = "PIPE" <=> executorResponse = "200"
    /\ subscriptions = IF executorResponse = "200" THEN 1 ELSE 0
    /\ executorResponse = "202" <=>
          (executorCall \in {"UPDATE", "MESSAGE"} /\ ExecutorAccepted)
    /\ statusUpdates =
          IF executorResponse = "202" /\ executorCall = "UPDATE" THEN 1 ELSE 0
    /\ executorMessages =
          IF executorResponse = "202" /\ executorCall = "MESSAGE" THEN 1 ELSE 0
    /\ ( /\ ExecutorWellFormed
         /\ ExecutorKnown
         /\ executorCall # "SUBSCRIBE"
         /\ executorState = "REGISTERING" ) =>
          /\ executorResponse = "403"
          /\ forwarded = <<0, 0, 0>>
    /\ (ExecutorWellFormed /\ ~ExecutorKnown) =>
          /\ executorResponse = "400"
          /\ forwarded = <<0, 0, 0>>

\* The UPDATE of an executor that has not subscribed was answered 403.
C31_Witness ==
  /\ executorCall = "UPDATE"
  /\ ExecutorKnown
  /\ executorState = "REGISTERING"
  /\ executorResponse = "403"

\* A SUBSCRIBE that only the headers can have rejected: the agent runs, the
\* method is POST, the body holds a valid call of a known executor.
NegotiationDecides ==
  /\ executorResponse # "pending"
  /\ executorCall = "SUBSCRIBE"
  /\ reconnect
  /\ ~Recovering(state)
  /\ method = "POST"
  /\ body = "call"
  /\ ExecutorKnown

\* The executor endpoint's outcome is the one api computes for the headers.
SameNegotiation ==
  LET c == ApiCheck(state, method, contentType_, accept) IN
  IF c.result = "proceed"
    THEN executorResponse = "200" /\ executorAcceptType = c.acceptType
    ELSE executorResponse = c.result

StreamingMediaTypes ==
  {"APPLICATION_STREAMING_JSON", "APPLICATION_STREAMING_PROTOBUF"}

\* C32 as stated: for every combination of Content-Type and Accept headers
\* the executor endpoint's negotiation outcome (400, 415, 406 or the
\* selected response type) equals the call endpoint's.
C32_SameNegotiation == NegotiationDecides => SameNegotiation

(***************************************************************************)
(* C32, amended: the outcomes are equal for every Content-Type that is not *)
(* a streaming media type and every Accept header that permits no          *)
(* streaming media type; a streaming Content-Type is answered 415 by the   *)
(* executor endpoint, and it selects JSON or PROTOBUF only, JSON first.    *)
(***************************************************************************)
C32_SameNegotiationWithoutStreaming ==
  NegotiationDecides =>
    /\ ( /\ contentType_ \notin StreamingMediaTypes
         /\ accept \cap StreamingMediaTypes = {} ) => SameNegotiation
    /\ contentType_ \in StreamingMediaTypes => executorResponse = "415"
    /\ executorAcceptType \in {NULL, "JSON", "PROTOBUF"}
    /\ ( /\ executorResponse = "200"
         /\ "APPLICATION_JSON" \in accept ) => executorAcceptType = "JSON"

\* A SUBSCRIBE whose Accept header permits both plain types was answered
\* with JSON, as the call endpoint would.
C32_Witness ==
  /\ NegotiationDecides
  /\ contentType_ = "APPLICATION_PROTOBUF"
  /\ accept = {"APPLICATION_JSON", "APPLICATION_PROTOBUF"}
  /\ executorResponse = "200"
  /\ executorAcceptType = "JSON"

\* The volumes created and not destroyed since by the first i operations.
LiveAfter(i) ==
  { v \in Volumes :
      \E j \in 1..i :
        /\ operations[j] = CreateOperation(v)
        /\ \A k \in (j + 1)..i : operations[k] # DestroyOperation(v) }

Settled == processed = Len(sent)

SessionLaunchRefused ==
  IsSession /\ launchResponse \notin {"pending", "200"}

\* The launch step has destroyed the container or has dispatched its destroy.
DestroyedByLaunchStep == "launchFailed" \in (deferred \cup destroyedBy)

StreamingHandled ==
  /\ apiPc \in {"dispatched", "done"}
  /\ requestStreaming(contentType)

(***************************************************************************)
(* C36: of a streaming body api reads exactly one frame before _api        *)
(* dispatches.  A body that ends before its first frame is answered 400;   *)
(* otherwise the call is the one of the first frame and no later frame is  *)
(* taken by the dispatcher; the handler of ATTACH_CONTAINER_INPUT gets the *)
(* decoder as it stands behind the first frame.                            *)
(***************************************************************************)
C36_FirstFrameOnly ==
  StreamingHandled =>
    /\ (body = "empty" /\ response # Failure("read")) =>
          response = "400" /\ framesRead = 0
    /\ (body # "empty" /\ response # Failure("read")) => framesRead = 1
    /\ decoded = 0
    /\ dispatched # NULL =>
          /\ dispatched = "ATTACH_CONTAINER_INPUT"
          /\ callType = "ATTACH_CONTAINER_INPUT"
          /\ framesRead = 1
    /\ pc = "attaching" =>
          /\ inputWritten = << Encode(CallMessage) >>
          /\ relay = "reading"

\* ATTACH_CONTAINER_INPUT with two more frames behind the first: the handler
\* is entered with both of them still to decode.
C36_Witness ==
  /\ StreamingHandled
  /\ dispatched = "ATTACH_CONTAINER_INPUT"
  /\ pc = "attaching"
  /\ Len(inputFrames) = 2
  /\ framesRead = 1
  /\ decoded = 0

C38_ReaderPresent ==
  /\ apiPc # "aborted"
  /\ dispatched = "ATTACH_CONTAINER_INPUT" =>
        callReader /\ requestStreaming(contentType)

\* ATTACH_CONTAINER_INPUT has come with a streaming Content-Type and its
\* handler has been entered.
C38_Witness ==
  /\ dispatched = "ATTACH_CONTAINER_INPUT"
  /\ contentType = "STREAMING_PROTOBUF"
  /\ callReader
  /\ pc = "attaching"

\* The handler of an attach call has been entered.
AttachEntered == callType \in AttachCalls /\ pc # "start"

(***************************************************************************)
(* C39: ATTACH_CONTAINER_INPUT and ATTACH_CONTAINER_OUTPUT call            *)
(* containerizer->attach on the ContainerID of the call with no request to *)
(* the authorizer, no evaluation of an approver and no lookup in the       *)
(* executor table; no outcome of theirs is one of the authorization or of  *)
(* the lookup, whatever authorizer is configured.                          *)
(***************************************************************************)
C39_AttachUnauthorized ==
  callType \in AttachCalls =>
    /\ authRequests = 0
    /\ approverEvals = 0
    /\ approved = "none"
    /\ executor = NULL
    /\ response \notin {"403", "404", Failure("approver")}
    /\ AttachEntered => attachOps = 1 /\ targets = {<<"attach", containerId>>}

\* An attach to the output of a container whose executor is unknown, with
\* an authorizer that denies everything, has been answered 200.
C39_Witness ==
  /\ callType = "ATTACH_CONTAINER_OUTPUT"
  /\ authorizer = "some"
  /\ \A e \in ExecutorIds : acls[e] = "deny"
  /\ executors = {}
  /\ attachOps = 1
  /\ response = "200"

\* The continuation of a wait or of a kill has run.
WaitOrKillChecked ==
  /\ callType \in {"WAIT_NESTED_CONTAINER", "KILL_NESTED_CONTAINER"}
  /\ Checked

(***************************************************************************)
(* C40: in wait and kill the lookup of the executor comes before the       *)
(* authorization.  When no executor matches the id the response is 404,    *)
(* whatever the approver would decide, and the approver is not evaluated;  *)
(* 403 is returned only for an id that matches an executor, so what a      *)
(* denied caller is answered tells whether the container's executor        *)
(* exists.                                                                 *)
(***************************************************************************)
C40_LookupBeforeAuthorization ==
  WaitOrKillChecked =>
    /\ executor = NULL =>
          /\ response = "404"
          /\ approverEvals = 0
          /\ approved = "none"
    /\ response = "403" =>
          /\ executor # NULL
          /\ approved = "deny"
          /\ approverEvals = 1
    /\ ( /\ executor # NULL
         /\ ObjectApproverFor(authorizer, acls)[executor] = "deny" )
          => response = "403"

\* A caller whom the authorizer denies everything has killed a container of
\* no executor and was answered 404.
C40_Witness ==
  /\ callType = "KILL_NESTED_CONTAINER"
  /\ Checked
  /\ authorizer = "some"
  /\ \A e \in ExecutorIds : acls[e] = "deny"
  /\ executor = NULL
  /\ response = "404"


====
